---------------------------- MODULE Spec2Model ----------------------------
(***************************************************************************)
(* Model of the VScript debugger session engine (vscriptDebug.ts,          *)
(* watches.ts, parsing.ts, fileReferences.ts).                             *)
(*                                                                         *)
(* The session object is one set of variables.  Each component has its own *)
(* specification (SpecBp, SpecVerify, SpecNotify, SpecRace, SpecChunk,     *)
(* SpecRecv, SpecOverlap, SpecStep, SpecMix, SpecScopes, SpecLookup,       *)
(* SpecResume, SpecAuto, SpecWatch, SpecAddWatch, SpecUpdate, SpecConn,    *)
(* SpecReconnect, SpecTree, SpecRepr) over the same variables; a           *)
(* specification leaves the variables of the other components unchanged.   *)
(*                                                                         *)
(* Socket writes and adapter events are recorded per handler run: `sent'   *)
(* and `events' hold what the LAST action wrote / emitted, in order.       *)
(***************************************************************************)
EXTENDS Integers, Sequences, FiniteSets, TLC

VARIABLES
    debuggerState,            \* DebuggerState
    scriptVersion,            \* VScriptVersion
    resumeOnExceptions,       \* setting: auto resume on exceptions
    rememberFiles,            \* config rememberFileReferencesDuringSession
    displayRootTable,         \* config displayRootTable
    breakpoints,              \* _breakpoints : Map<path, IBreakpoint[]>
    breakpointsRefCount,      \* _breakpointsRefCount : Map<[string, number], number>
    notifiedFileBreakpoints,  \* _notifiedFileBreakpoints
    bpTasks,                  \* setBreakPointsRequest runs suspended in an await
    bpWaiting,                \* setBreakPointsRequest runs waiting for "connect"
    emitter,                  \* the setBreakpoints run that produced `sent'
    bufferedData,             \* _bufferedData
    stackFrameID,             \* stackFrameID
    stacktraces,              \* stacktraces
    exceptionInfo,            \* exceptionInfo
    resolvedFileReferences,   \* resolvedFileReferences : Map<basename, FileReferenceData>
    currentFrameID,           \* currentFrameID
    startingFrameID,          \* startingFrameID
    localVariables,           \* localVariables.get(0)
    parseTasks,               \* parseReceivedData callbacks suspended in an await
    decoded,                  \* number of packages handed to parseReceivedData by the last action
    parsed,                   \* the frames whose decoding ended in the last action, with the outcome
    resumeWorkaround,         \* config resumeWorkaround
    resumeTimers,             \* number of step timers scheduled and not yet fired or cleared
    timerHandleLive,          \* whether this.resumeTimer refers to one of them
    watches,                  \* watches
    watchesThisStep,          \* watchesThisStep
    entityDataWatches,        \* entityDataWatches (flattened)
    watchID,                  \* watchID
    currentParsedReferences,  \* currentParsedReferences (the object graph of the step)
    visitedTreeElements,      \* visitedTreeElements
    referenceTree,            \* referenceTree, as the list of its nodes in creation order
    treePhase,                \* "idle" | "done" | "diverged": the run of buildReferenceTree
    connectionRetries,        \* connectionRetries
    cancelledProgressId,      \* whether _cancelledProgressId is the id of the retry progress
    connecting,               \* whether a socket.connect of attemptConnect is outstanding
    retryTimers,              \* number of retry timers of the 'error' handler scheduled and not yet fired
    attempts,                 \* attemptConnect calls since the last attachRequest
    watchEvaluateTimers,      \* number of timers of sendUpdateRequest scheduled and not yet fired or cleared
    watchTimerLive,           \* whether this.watchEvaluateTimer refers to one of them
    scopeTasks,               \* scopesRequest runs suspended in resolveFileReference
    usedVariableReferences,   \* usedVariableReferences
    variableBuckets,          \* localVariables.get(k) for k > 0
    maxShortData,             \* maxShortData
    shortRepr,                \* result of the last getStructShortRepresentation call
    lastOp,                   \* the handler that ran last, with its arguments
    sent,                     \* socket writes of the last action
    events                    \* adapter events of the last action

vars == << debuggerState, scriptVersion, resumeOnExceptions, rememberFiles,
           displayRootTable, breakpoints, breakpointsRefCount,
           notifiedFileBreakpoints, bpTasks, bpWaiting, emitter, bufferedData,
           stackFrameID, stacktraces, exceptionInfo, resolvedFileReferences,
           currentFrameID, startingFrameID, localVariables, parseTasks, decoded,
           parsed, resumeWorkaround, resumeTimers, timerHandleLive, watches, watchesThisStep, entityDataWatches, watchID,
           connectionRetries, cancelledProgressId, connecting, retryTimers,
           attempts, watchEvaluateTimers, watchTimerLive,
           scopeTasks, usedVariableReferences, variableBuckets,
           currentParsedReferences, visitedTreeElements, referenceTree,
           treePhase, maxShortData, shortRepr, lastOp, sent, events >>

sessionVars == << debuggerState, scriptVersion, resumeOnExceptions, rememberFiles,
                  displayRootTable >>
bpVars      == << breakpoints, breakpointsRefCount, notifiedFileBreakpoints,
                  bpTasks, bpWaiting, emitter >>
recvVars    == << bufferedData, stackFrameID, stacktraces, exceptionInfo,
                  resolvedFileReferences, currentFrameID, startingFrameID,
                  localVariables, parseTasks, decoded, parsed, resumeWorkaround,
                  resumeTimers, timerHandleLive >>
watchVars   == << watches, watchesThisStep, entityDataWatches, watchID >>
treeVars    == << currentParsedReferences, visitedTreeElements, referenceTree,
                  treePhase >>
reprVars    == << maxShortData, shortRepr >>
connVars    == << connectionRetries, cancelledProgressId, connecting, retryTimers,
                  attempts >>
timerVars   == << watchEvaluateTimers, watchTimerLive >>
lookupVars  == << scopeTasks, usedVariableReferences, variableBuckets >>

-----------------------------------------------------------------------------
(* Bounds of the model *)

MaxLine       == 1     \* breakpoint lines are 1..MaxLine
MaxBpTasks    == 1     \* setBreakpoints runs suspended at the same time
MaxWatches    == 3     \* entries kept in the watch list before adds stop
MaxWatchID    == 3     \* watchID stays below this
MaxThisStep   == 2     \* entries kept in watchesThisStep before evaluations stop
MaxFrames     == 1     \* frames held by the receive buffer at the same time
MaxParseTasks == 1     \* frame decodings suspended in a file resolution at the same time
MaxScopeTasks == 1     \* scopesRequest runs suspended in a file resolution at the same time
MaxRefCount   == 2     \* the count of a resolved file reference stays at or below this
MaxTimers     == 2     \* step timers scheduled at the same time
MaxElems      == 1     \* elements of an object of the reference list
MaxLength     == 10    \* elements of the aggregate that is rendered
MaxShortData  == 5     \* largest configured maximumStructureShortRepresentationValues

-----------------------------------------------------------------------------
(* Generic helpers *)

Undefined == "undefined"

Range(s) == { s[i] : i \in 1..Len(s) }

SeqFilter(s, Test(_)) == SelectSeq(s, Test)

\* Array.prototype.find / findIndex: the 1-based index of the first element
\* satisfying the test, 0 when there is none
FindIndex(s, Test(_)) ==
    LET hits == { i \in 1..Len(s) : Test(s[i]) }
    IN  IF hits = {} THEN 0 ELSE CHOOSE i \in hits : \A j \in hits : i <= j

\* Array.prototype.splice(idx, 1) for a 1-based idx
RemoveAt(s, idx) == [ i \in 1..(Len(s) - 1) |-> IF i < idx THEN s[i] ELSE s[i + 1] ]

\* the lines 1..MaxLine of a set, ascending, as the client sends them
RECURSIVE SetToSeq(_)
SetToSeq(S) ==
    IF S = {} THEN << >>
    ELSE LET m == CHOOSE x \in S : \A y \in S : x <= y
         IN  << m >> \o SetToSeq(S \ {m})

-----------------------------------------------------------------------------
(* Protocol codec: commands written to the socket.  nl records whether the *)
(* written string ends with "\n".                                          *)

Cmd(op, arg, nl) == [ op |-> op, arg |-> arg, nl |-> nl ]

NoArg == << >>

\* DebuggerState
StDisconnected == "disconnected"
StReady        == "ready"
StRunning      == "runnning"
StStopped      == "stopped"
StErrored      == "errored"
StPreResume    == "preResume"
DebuggerStates == { StRunning, StStopped, StErrored, StPreResume, StReady, StDisconnected }

\* VScriptVersion
Squirrel2 == 0
Squirrel3 == 1

-----------------------------------------------------------------------------
(* Frames of the debug server and the byte stream that carries them.  A    *)
(* file is << directory, file name >>; the engine names a script by its    *)
(* file name alone, with an empty directory.                               *)

Frame(kind, type, desc, src, line, calls) ==
    [ kind |-> kind, type |-> type, desc |-> desc, src |-> src, line |-> line,
      calls |-> calls ]

\* a <call fnc= src= line=> element
Call(fnc, src, line) == [ fnc |-> fnc, src |-> src, line |-> line ]

\* a <l name= type= val=> element of a call
Local(name, type, val) == [ name |-> name, type |-> type, val |-> val ]

\* a <call> element with <l> elements, and a frame with an <objs> list
CallWithLocals(fnc, src, line, l) == [ fnc |-> fnc, src |-> src, line |-> line, l |-> l ]
FrameWithObjs(frame, objs) ==
    [ kind |-> frame.kind, type |-> frame.type, desc |-> frame.desc, src |-> frame.src,
      line |-> frame.line, calls |-> frame.calls, objs |-> objs ]

NoPath   == << >>
NoSource == << "", "" >>

SrcUnique    == << "", "a.nut" >>     \* one file of that name in the workspace
SrcAmbiguous == << "", "d.nut" >>     \* two files of that name
SrcMissing   == << "", "m.nut" >>     \* no file of that name
SrcNative    == << "", "NATIVE" >>    \* not a script file

\* source.endsWith(".nut")
IsNut(src) == src[2] \in { "a.nut", "d.nut", "m.nut", "f.nut", "g.nut" }

\* findFileRecusive over the script directories: the files of that name
FindFiles(src) ==
    IF src[2] = "a.nut" THEN << << "x", "a.nut" >> >>
    ELSE IF src[2] = "d.nut" THEN << << "x", "d.nut" >>, << "y", "d.nut" >> >>
    ELSE << >>

EmptyFrame         == Frame("", "", FALSE, NoSource, 0, << >>)
ResumedFrame       == Frame("resumed", "", FALSE, NoSource, 0, << >>)
GarbageFrame       == Frame("garbage", "", FALSE, NoSource, 0, << >>)
AddBreakpointFrame == Frame("addbreakpoint", "", FALSE, << "", "f.nut" >>, 1, << >>)
UpdateFrame        == Frame("update", "", FALSE, NoSource, 0, << Call("main", SrcNative, 2) >>)

\* a <break> frame without a desc attribute, its calls innermost first; the
\* line of the break element is 1, the lines of the call elements are 2
BreakFrame(type, calls) == Frame("break", type, FALSE, calls[1].src, 1, calls)

OneCall(src)       == << Call("inner", src, 2) >>
TwoCalls(src, low) == << Call("inner", src, 2), Call("outer", low, 2) >>

\* a <break> frame with a desc attribute
DescFrame == Frame("break", "breakpoint", TRUE, SrcNative, 1, OneCall(SrcNative))

\* the error attribute of a <break type="error"> frame, and html-entities decode
ErrorText == "a &lt; b"
Decode(text) == IF text = "a &lt; b" THEN "a < b" ELSE text

\* frames whose calls need no file resolution
LightFrames ==
    { ResumedFrame, GarbageFrame, AddBreakpointFrame, UpdateFrame, DescFrame,
      BreakFrame("breakpoint", OneCall(SrcNative)),
      BreakFrame("error", OneCall(SrcNative)),
      BreakFrame("step", TwoCalls(SrcNative, SrcNative)) }

\* step-stop frames whose calls name script files
FileFrames ==
    { BreakFrame(type, calls) :
        type \in { "breakpoint", "error" },
        calls \in { OneCall(src) : src \in { SrcUnique, SrcAmbiguous, SrcMissing } }
                    \cup { TwoCalls(SrcAmbiguous, SrcUnique) } }

\* the stream as tokens: the text of a frame (whole, or its first or second
\* half), carriage return, line feed
Tok(t, frame, part) == [ t |-> t, frame |-> frame, part |-> part ]
CR == Tok("cr", EmptyFrame, "")
LF == Tok("lf", EmptyFrame, "")
Text(frame, part) == Tok("text", frame, part)

\* string concatenation: the two halves of a frame text join
Concat(a, b) ==
    IF /\ a # << >> /\ b # << >>
       /\ a[Len(a)].t = "text" /\ a[Len(a)].part = "head"
       /\ b[1].t = "text" /\ b[1].part = "tail"
       /\ a[Len(a)].frame = b[1].frame
    THEN SubSeq(a, 1, Len(a) - 1) \o << Text(b[1].frame, "whole") >> \o Tail(b)
    ELSE a \o b

\* String.endsWith("\r\n")
EndsWithCRLF(b) == Len(b) >= 2 /\ b[Len(b) - 1] = CR /\ b[Len(b)] = LF

\* String.split("\r\n")
RECURSIVE SplitFrom(_, _, _, _)
SplitFrom(b, i, cur, out) ==
    IF i > Len(b) THEN Append(out, cur)
    ELSE IF i < Len(b) /\ b[i] = CR /\ b[i + 1] = LF
         THEN SplitFrom(b, i + 2, << >>, Append(out, cur))
         ELSE SplitFrom(b, i + 1, Append(cur, b[i]), out)

Split(b) == SplitFrom(b, 1, << >>, << >>)

\* xml2js parseString: the document of a package, or an error
ParseString(pkg) ==
    IF Len(pkg) = 1 /\ pkg[1].t = "text" /\ pkg[1].part = "whole"
       /\ pkg[1].frame.kind # "garbage"
    THEN [ err |-> FALSE, data |-> pkg[1].frame ]
    ELSE [ err |-> TRUE,
           data |-> IF pkg # << >> /\ pkg[1].t = "text" THEN pkg[1].frame ELSE EmptyFrame ]

\* the string literal "<resumed/>\r\n"
ResumedLiteral == << Text(ResumedFrame, "whole"), CR, LF >>

\* receivedData.slice(0, 120).includes("error=", 25)
HasErrorMarker(pkg) ==
    /\ pkg # << >>
    /\ pkg[1].t = "text"
    /\ pkg[1].part \in { "whole", "head" }
    /\ pkg[1].frame.kind = "break"
    /\ pkg[1].frame.type = "error"

\* the bytes the server writes for a sequence of frames, each text in two halves
RECURSIVE Wire(_)
Wire(fs) ==
    IF fs = << >> THEN << >>
    ELSE << Text(Head(fs), "head"), Text(Head(fs), "tail"), CR, LF >> \o Wire(Tail(fs))

RECURSIVE JoinAll(_)
JoinAll(toks) ==
    IF toks = << >> THEN << >>
    ELSE Concat(JoinAll(SubSeq(toks, 1, Len(toks) - 1)), << toks[Len(toks)] >>)

\* the chunks a socket can deliver of a stream of at most n frames
Pieces(frames, n) ==
    UNION { { JoinAll(SubSeq(Wire(fs), i, j)) : i \in 1..(4 * Len(fs)), j \in 1..(4 * Len(fs)) }
            : fs \in UNION { [ 1..k -> frames ] : k \in 1..n } } \ { << >> }

\* the chunks that carry one terminated frame
WholeChunks(frames) == { << Text(f, "whole"), CR, LF >> : f \in frames }

\* a buffer that is the start of a stream of frames
RECURSIVE WellFormed(_)
WellFormed(b) ==
    \/ b = << >>
    \/ Len(b) = 1 /\ b[1].t = "text" /\ b[1].part \in { "head", "whole" }
    \/ Len(b) = 2 /\ b[1].t = "text" /\ b[1].part = "whole" /\ b[2] = CR
    \/ /\ Len(b) >= 3
       /\ b[1].t = "text" /\ b[1].part = "whole" /\ b[2] = CR /\ b[3] = LF
       /\ WellFormed(SubSeq(b, 4, Len(b)))

NumFrames(b) == Cardinality({ i \in 1..Len(b) : b[i].t = "text" })

-----------------------------------------------------------------------------
(* Breakpoint registry *)

\* a script path relative to the vscripts root: << directory, file name >>
Paths == { << "a", "f.nut" >>, << "b", "f.nut" >>, << "c", "g.nut" >> }
Lines == 1..MaxLine

\* path.basename
Basename(p) == p[2]

\* this._breakpoints.get(bpPath) || []
BpGet(bps, p) == IF p \in DOMAIN bps THEN bps[p] ELSE << >>

BpLines(bps, p) == { BpGet(bps, p)[i].line : i \in 1..Len(BpGet(bps, p)) }

\* _breakpointsRefCount is a Map whose keys are array literals built at each
\* call.  A Map compares object keys by identity, so no stored key is ever equal
\* to the key of a later call.  The map is kept as the set of its entries
\* [ base, line, count ]: entries with equal contents are kept once, which no
\* read of the map can tell apart.

\* Map.get with a fresh array key: undefined
RefCountGet(m, base, line) == Undefined

\* Map.delete with a fresh array key: nothing is deleted
RefCountDelete(m, base, line) == m

\* Map.set with a fresh array key: always a new entry
RefCountSet(m, base, line, n) == m \cup { [ base |-> base, line |-> line, count |-> n ] }

\* sendRemoveBreakpoint / sendAddBreakpoint
SendRemoveBreakpoint(p, line) == Cmd("rb", << line, p >>, TRUE)
SendAddBreakpoint(p, line)    == Cmd("ab", << line, p >>, TRUE)

\* the requested lines added to the entries the path already had
ActualBreakpoints_keepOld(originalBps, req) ==
    originalBps \o [ i \in 1..Len(req) |-> [ line |-> req[i], verified |-> TRUE ] ]

\* the registry entries built for the requested lines (actualBreakpoints)
ActualBreakpoints(originalBps, req) ==
    [ i \in 1..Len(req) |->
        LET existingBp == FindIndex(originalBps, LAMBDA b : b.line = req[i])
        IN  [ line     |-> req[i],
              verified |-> IF existingBp # 0 THEN originalBps[existingBp].verified
                           ELSE TRUE ] ]

BpsForRemoval(originalBps, newBps) ==
    SeqFilter(originalBps, LAMBDA e : \A i \in 1..Len(newBps) : newBps[i].line # e.line)

BpsForInclusion_all(originalBps, newBps) == newBps

BpsForInclusion(originalBps, newBps) ==
    SeqFilter(newBps, LAMBDA e : \A i \in 1..Len(originalBps) : originalBps[i].line # e.line)

\* the loop over bpsForRemoval: result is [ m, out ]
RECURSIVE RemovalLoop(_, _, _, _)
RemovalLoop(p, bps, m, out) ==
    IF bps = << >> THEN [ m |-> m, out |-> out ]
    ELSE LET bp  == Head(bps)
             got == RefCountGet(m, Basename(p), bp.line)
             rc  == (IF got = Undefined \/ got = 0 THEN 0 ELSE got) - 1
         IN  IF rc <= 0
             THEN RemovalLoop(p, Tail(bps), RefCountDelete(m, Basename(p), bp.line),
                              Append(out, SendRemoveBreakpoint(p, bp.line)))
             ELSE RemovalLoop(p, Tail(bps), RefCountSet(m, Basename(p), bp.line, rc), out)

\* the increment after the (possibly awaited) notification
RefCountIncrement(m, p, line) ==
    LET got == RefCountGet(m, Basename(p), line)
        rc  == (IF got = Undefined THEN 0 ELSE got) + 1
    IN  RefCountSet(m, Basename(p), line, rc)

WasNotified_never(notified, base) == FALSE

\* this._notifiedFileBreakpoints.includes(path.basename(bpPath))
WasNotified(notified, base) == base \in Range(notified)

\* the loop over bpsForInclusion from index i, up to the first await of
\* resolveFileReference or the end: result is [ m, notified, out, at ] where
\* at = 0 when the loop finished and the index of the suspended iteration otherwise
RECURSIVE InclusionLoop(_, _, _, _, _, _)
InclusionLoop(p, incl, i, m, notified, out) ==
    IF i > Len(incl) THEN [ m |-> m, notified |-> notified, out |-> out, at |-> 0 ]
    ELSE LET out1 == Append(out, SendAddBreakpoint(p, incl[i].line))
         IN  IF ~WasNotified(notified, Basename(p))
             THEN [ m |-> m, notified |-> Append(notified, Basename(p)), out |-> out1, at |-> i ]
             ELSE InclusionLoop(p, incl, i + 1, RefCountIncrement(m, p, incl[i].line),
                                notified, out1)

NoEmitter == [ path |-> << >>, added |-> {} ]

-----------------------------------------------------------------------------
(* The session as one record, so that a handler that calls other handlers  *)
(* is the composition of their effects.                                    *)

Snap ==
    [ debuggerState |-> debuggerState, scriptVersion |-> scriptVersion,
      resumeOnExceptions |-> resumeOnExceptions, rememberFiles |-> rememberFiles,
      displayRootTable |-> displayRootTable, breakpoints |-> breakpoints,
      breakpointsRefCount |-> breakpointsRefCount,
      notifiedFileBreakpoints |-> notifiedFileBreakpoints, bpTasks |-> bpTasks,
      bpWaiting |-> bpWaiting, emitter |-> emitter, bufferedData |-> bufferedData,
      stackFrameID |-> stackFrameID, stacktraces |-> stacktraces,
      exceptionInfo |-> exceptionInfo,
      resolvedFileReferences |-> resolvedFileReferences,
      currentFrameID |-> currentFrameID, startingFrameID |-> startingFrameID,
      localVariables |-> localVariables, parseTasks |-> parseTasks,
      decoded |-> decoded, parsed |-> parsed, resumeWorkaround |-> resumeWorkaround,
      resumeTimers |-> resumeTimers, timerHandleLive |-> timerHandleLive,
      watches |-> watches, watchesThisStep |-> watchesThisStep,
      entityDataWatches |-> entityDataWatches, watchID |-> watchID,
      connectionRetries |-> connectionRetries,
      cancelledProgressId |-> cancelledProgressId,
      connecting |-> connecting,
      retryTimers |-> retryTimers,
      attempts |-> attempts,
      watchEvaluateTimers |-> watchEvaluateTimers,
      watchTimerLive |-> watchTimerLive,
      scopeTasks |-> scopeTasks,
      usedVariableReferences |-> usedVariableReferences,
      variableBuckets |-> variableBuckets,
      currentParsedReferences |-> currentParsedReferences,
      visitedTreeElements |-> visitedTreeElements, referenceTree |-> referenceTree,
      treePhase |-> treePhase, maxShortData |-> maxShortData,
      shortRepr |-> shortRepr, lastOp |-> lastOp, sent |-> sent, events |-> events ]

\* the session at the start of a handler run: nothing written or emitted yet
Begin(op) ==
    [ Snap EXCEPT !.sent = << >>, !.events = << >>, !.decoded = 0, !.parsed = << >>,
                  !.emitter = NoEmitter, !.lastOp = op ]

Commit(s) ==
    /\ debuggerState' = s.debuggerState
    /\ scriptVersion' = s.scriptVersion
    /\ resumeOnExceptions' = s.resumeOnExceptions
    /\ rememberFiles' = s.rememberFiles
    /\ displayRootTable' = s.displayRootTable
    /\ breakpoints' = s.breakpoints
    /\ breakpointsRefCount' = s.breakpointsRefCount
    /\ notifiedFileBreakpoints' = s.notifiedFileBreakpoints
    /\ bpTasks' = s.bpTasks
    /\ bpWaiting' = s.bpWaiting
    /\ emitter' = s.emitter
    /\ bufferedData' = s.bufferedData
    /\ stackFrameID' = s.stackFrameID
    /\ stacktraces' = s.stacktraces
    /\ exceptionInfo' = s.exceptionInfo
    /\ resolvedFileReferences' = s.resolvedFileReferences
    /\ currentFrameID' = s.currentFrameID
    /\ startingFrameID' = s.startingFrameID
    /\ localVariables' = s.localVariables
    /\ parseTasks' = s.parseTasks
    /\ decoded' = s.decoded
    /\ parsed' = s.parsed
    /\ resumeWorkaround' = s.resumeWorkaround
    /\ resumeTimers' = s.resumeTimers
    /\ timerHandleLive' = s.timerHandleLive
    /\ watches' = s.watches
    /\ watchesThisStep' = s.watchesThisStep
    /\ entityDataWatches' = s.entityDataWatches
    /\ watchID' = s.watchID
    /\ connectionRetries' = s.connectionRetries
    /\ cancelledProgressId' = s.cancelledProgressId
    /\ connecting' = s.connecting
    /\ retryTimers' = s.retryTimers
    /\ attempts' = s.attempts
    /\ watchEvaluateTimers' = s.watchEvaluateTimers
    /\ watchTimerLive' = s.watchTimerLive
    /\ scopeTasks' = s.scopeTasks
    /\ usedVariableReferences' = s.usedVariableReferences
    /\ variableBuckets' = s.variableBuckets
    /\ currentParsedReferences' = s.currentParsedReferences
    /\ visitedTreeElements' = s.visitedTreeElements
    /\ referenceTree' = s.referenceTree
    /\ treePhase' = s.treePhase
    /\ maxShortData' = s.maxShortData
    /\ shortRepr' = s.shortRepr
    /\ lastOp' = s.lastOp
    /\ sent' = s.sent
    /\ events' = s.events

Write(s, cmd) == [ s EXCEPT !.sent = Append(@, cmd) ]
SendEvent(s, ev) == [ s EXCEPT !.events = Append(@, ev) ]

Ev(type, arg) == [ type |-> type, arg |-> arg ]

-----------------------------------------------------------------------------
(* Watch manager (watches.ts) *)

RootExpr == "clone ::getroottable()"
Exprs    == { "e1", "e2", "e3" }

\* id & 0x100000
HasReservedBit(id) == (id \div 1048576) % 2 = 1

\* an id carrying the bit reserved for entity data
EntityId == 1048576 + 1

NewWatch(id, expression) == [ id |-> id, expression |-> expression ]

\* the fire-and-forget branch of addWatch, counting the id as used
FireAndForget_counted(s, id, expression) ==
    [ s |-> [ Write(s, Cmd("aw", << id, expression >>, TRUE)) EXCEPT !.watchID = @ + 1 ],
      watch |-> NewWatch(id, expression) ]

\* addWatch with affectTables = false: the command is written and the watch
\* is returned
FireAndForget(s, id, expression) ==
    [ s |-> Write(s, Cmd("aw", << id, expression >>, TRUE)),
      watch |-> NewWatch(id, expression) ]

\* addWatch that writes the command also for an expression that is tracked
AddWatch_always(s, id, expression, variableReference, affectTables) ==
    LET watch == NewWatch(id, expression)
        aw    == Cmd("aw", << id, expression >>, TRUE)
    IN  IF ~affectTables
        THEN FireAndForget(s, id, expression)
        ELSE IF ~HasReservedBit(id)
        THEN LET existingWatch == FindIndex(s.watches, LAMBDA e : e.expression = expression)
             IN  IF existingWatch = 0
                 THEN [ s |-> [ Write(s, aw) EXCEPT !.watches = Append(@, watch),
                                                    !.watchID = @ + 1 ],
                        watch |-> watch ]
                 ELSE [ s |-> Write(s, aw), watch |-> s.watches[existingWatch] ]
        ELSE [ s |-> [ Write(s, aw) EXCEPT
                         !.entityDataWatches =
                             Append(@, [ id |-> id, expression |-> expression,
                                         holder |-> variableReference ]),
                         !.watchID = @ + 1 ],
               watch |-> watch ]

\* addWatch: result is [ s, watch ]
AddWatch(s, id, expression, variableReference, affectTables) ==
    LET watch == NewWatch(id, expression)
        aw    == Cmd("aw", << id, expression >>, TRUE)
    IN  IF ~affectTables
        THEN FireAndForget(s, id, expression)
        ELSE IF ~HasReservedBit(id)
        THEN LET existingWatch == FindIndex(s.watches, LAMBDA e : e.expression = expression)
             IN  IF existingWatch = 0
                 THEN [ s |-> [ Write(s, aw) EXCEPT !.watches = Append(@, watch),
                                                    !.watchID = @ + 1 ],
                        watch |-> watch ]
                 ELSE [ s |-> s, watch |-> s.watches[existingWatch] ]
        ELSE [ s |-> [ Write(s, aw) EXCEPT
                         !.entityDataWatches =
                             Append(@, [ id |-> id, expression |-> expression,
                                         holder |-> variableReference ]),
                         !.watchID = @ + 1 ],
               watch |-> watch ]

\* the command removeWatch writes: `rw 0x${id.toString(16)}`, no line feed
RemoveWatchCmd(id) == Cmd("rw", << id >>, FALSE)

RemoveWatch_always(s, id, affectTables) ==
    IF ~affectTables
    THEN Write(s, RemoveWatchCmd(id))
    ELSE LET idIndex == FindIndex(s.watches, LAMBDA e : e.id = id)
         IN  IF ~HasReservedBit(id) /\ idIndex # 0
             THEN [ Write(s, RemoveWatchCmd(id)) EXCEPT !.watches = RemoveAt(@, idIndex) ]
             ELSE Write(s, RemoveWatchCmd(id))

\* removeWatch
RemoveWatch(s, id, affectTables) ==
    IF ~affectTables
    THEN Write(s, RemoveWatchCmd(id))
    ELSE IF ~HasReservedBit(id)
    THEN LET idIndex == FindIndex(s.watches, LAMBDA e : e.id = id)
         IN  IF idIndex # 0
             THEN [ Write(s, RemoveWatchCmd(id)) EXCEPT !.watches = RemoveAt(@, idIndex) ]
             ELSE s
    ELSE LET idIndex == FindIndex(s.entityDataWatches, LAMBDA e : e.id = id)
         IN  IF idIndex # 0
             THEN [ Write(s, RemoveWatchCmd(id)) EXCEPT
                      !.entityDataWatches = RemoveAt(@, idIndex) ]
             ELSE s

\* the for..of loop of cleanupUnusedWatches, at array index i.  The iterator
\* keeps its index while removeWatch splices the array that is iterated.
RECURSIVE CleanupLoop(_, _)
CleanupLoop(s, i) ==
    IF i > Len(s.watches) THEN s
    ELSE LET watch == s.watches[i]
         IN  IF watch.id = 0 THEN CleanupLoop(s, i + 1)
             ELSE IF watch.id \notin Range(s.watchesThisStep)
             THEN CleanupLoop(RemoveWatch(s, watch.id, TRUE), i + 1)
             ELSE CleanupLoop(s, i + 1)

\* cleanupUnusedWatches
CleanupUnusedWatches(s) == [ CleanupLoop(s, 1) EXCEPT !.watchesThisStep = << >> ]

-----------------------------------------------------------------------------
(* Session helpers (vscriptDebug.ts) *)

NoFileReferences == [ f \in {} |-> 0 ]
NoBreakpoints    == [ q \in {} |-> << >> ]
NoReferences     == [ r \in {} |-> << >> ]

\* resetFileReferences
ResetFileReferences(s) == [ s EXCEPT !.resolvedFileReferences = NoFileReferences ]

\* resetState
ResetState(s) ==
    LET s1 == [ s EXCEPT !.bufferedData = << >>,
                         !.currentFrameID = 0,
                         !.startingFrameID = -1,
                         !.resolvedFileReferences = NoFileReferences,
                         !.visitedTreeElements = << >> ]
    IN  IF ~s.rememberFiles THEN ResetFileReferences(s1) ELSE s1

\* the loop of resumeExecution over the entity-data watches
RECURSIVE RemoveEach(_, _)
RemoveEach(s, ws) ==
    IF ws = << >> THEN s ELSE RemoveEach(RemoveWatch(s, Head(ws).id, FALSE), Tail(ws))

\* resumeExecution without the ready command of the errored state
ReadyIfErrored_never(s) == s

\* resumeExecution: the ready command that precedes go in the errored state
ReadyIfErrored(s) ==
    IF s.debuggerState = StErrored THEN Write(s, Cmd("rd", NoArg, TRUE)) ELSE s

ResumeExecution_running(s) ==
    LET s1 == IF ~s.rememberFiles THEN [ s EXCEPT !.resolvedFileReferences = NoFileReferences ]
              ELSE s
        s2 == [ RemoveEach(s1, s1.entityDataWatches) EXCEPT !.entityDataWatches = << >> ]
        s3 == ReadyIfErrored(s2)
    IN  [ Write(s3, Cmd("go", NoArg, TRUE)) EXCEPT !.debuggerState = StRunning ]

\* resumeExecution
ResumeExecution(s) ==
    LET s1 == IF ~s.rememberFiles THEN [ s EXCEPT !.resolvedFileReferences = NoFileReferences ]
              ELSE s
        s2 == [ RemoveEach(s1, s1.entityDataWatches) EXCEPT !.entityDataWatches = << >> ]
        s3 == ReadyIfErrored(s2)
    IN  [ Write(s3, Cmd("go", NoArg, TRUE)) EXCEPT !.debuggerState = StReady ]

\* stepOut
StepOut(s) ==
    IF Len(s.stacktraces) > 1 THEN Write(s, Cmd("sr", NoArg, TRUE)) ELSE ResumeExecution(s)

-----------------------------------------------------------------------------
(* Reference tree (parsing.ts) *)

\* an <e kt= kv= vt= v=> element of an object of the reference list
Element(kt, kv, vt, v) == [ kt |-> kt, kv |-> kv, vt |-> vt, v |-> v ]

\* isComplexDataType
IsComplexDataType(shorttype) == shorttype \in { "t", "r", "a", "x", "y" }

AlreadySearched_never(searchedElementsList, serverReference) == FALSE

\* searchedElementsList.includes(serverReference)
AlreadySearched(searchedElementsList, serverReference) ==
    serverReference \in Range(searchedElementsList)

\* the calls of buildReferenceTree a run makes at most when no object is
\* expanded twice: the first one and one for each element of the list
RECURSIVE SumLen(_, _)
SumLen(referenceList, S) ==
    IF S = {} THEN 0
    ELSE LET r == CHOOSE x \in S : TRUE
         IN  Len(referenceList[r]) + SumLen(referenceList, S \ { r })

BuildBudget(referenceList) == 1 + SumLen(referenceList, DOMAIN referenceList)

\* buildReferenceTree.  st = [ nodes, searched, budget, diverged ] is the run:
\* the nodes created so far in creation order, the searched list, the calls
\* left and whether a call was needed beyond them.  Result: [ st, node ], node
\* the index of the node returned and 0 for undefined.
RECURSIVE BuildReferenceTree(_, _, _, _, _, _, _)
RECURSIVE BuildChildren(_, _, _, _, _, _)
BuildReferenceTree(referenceList, serverReference, name, type, parentNode, depth, st) ==
    IF st.budget = 0 THEN [ st |-> [ st EXCEPT !.diverged = TRUE ], node |-> 0 ]
    ELSE LET st0 == [ st EXCEPT !.budget = @ - 1 ]
             obj == referenceList[serverReference]
         IN  IF obj = << >> THEN [ st |-> st0, node |-> 0 ]
             ELSE IF AlreadySearched(st0.searched, serverReference)
             THEN [ st |-> st0, node |-> 0 ]
             ELSE LET tree == Len(st0.nodes) + 1
                      st1  == [ st0 EXCEPT
                                  !.searched = Append(@, serverReference),
                                  !.nodes = Append(@, [ reference    |-> serverReference,
                                                        firstName    |-> name,
                                                        variableType |-> type,
                                                        parent       |-> parentNode,
                                                        depth        |-> depth ]) ]
                  IN  [ st |-> BuildChildren(referenceList, obj, 1, tree, depth, st1),
                        node |-> tree ]

\* the loop over obj['e'] from element i; depth++ hands the depth over and
\* then increments it
BuildChildren(referenceList, elements, i, tree, depth, st) ==
    IF i > Len(elements) \/ st.diverged THEN st
    ELSE IF IsComplexDataType(elements[i].vt)
    THEN BuildChildren(referenceList, elements, i + 1, tree, depth + 1,
                       BuildReferenceTree(referenceList, elements[i].v, elements[i].kv,
                                          elements[i].vt, tree, depth, st).st)
    ELSE BuildChildren(referenceList, elements, i + 1, tree, depth, st)

-----------------------------------------------------------------------------
(* Frame decoder (parsing.ts) *)

\* getRelativeScriptPath: files are kept relative to the vscripts directory
GetRelativeScriptPath(src) == src

\* the body of the two `find' blocks of parseBreakpoint for one registry key
VerifyLine(s, key, bpLine) ==
    LET breakPointList == s.breakpoints[key]
        bp == FindIndex(breakPointList, LAMBDA b : b.line = bpLine)
    IN  IF bp = 0 THEN s
        ELSE SendEvent([ s EXCEPT !.breakpoints[key][bp].verified = TRUE ],
                       Ev("breakpoint", << "changed", key, bpLine >>))

RECURSIVE VerifyKeys(_, _, _)
VerifyKeys(s, keys, bpLine) ==
    IF keys = {} THEN s
    ELSE LET key == CHOOSE k \in keys : TRUE
         IN  VerifyKeys(VerifyLine(s, key, bpLine), keys \ { key }, bpLine)

\* parseBreakpoint without the lookup by the full path
ParseBreakpoint_byBasename(s, bpLine, bpFile) ==
    LET relativeScriptPath == GetRelativeScriptPath(bpFile)
    IN  VerifyKeys(s, { key \in DOMAIN s.breakpoints :
                          Basename(relativeScriptPath) = Basename(key) }, bpLine)

\* parseBreakpoint
ParseBreakpoint(s, bpLine, bpFile) ==
    LET relativeScriptPath == GetRelativeScriptPath(bpFile)
    IN  IF relativeScriptPath \in DOMAIN s.breakpoints
        THEN VerifyLine(s, relativeScriptPath, bpLine)
        ELSE VerifyKeys(s, { key \in DOMAIN s.breakpoints :
                               relativeScriptPath = << "", Basename(key) >> }, bpLine)

\* Map.set
Put(m, k, v) == [ x \in (DOMAIN m) \cup { k } |-> IF x = k THEN v ELSE m[x] ]

Parsed(s, frame, outcome) ==
    [ s EXCEPT !.parsed = Append(@, [ frame |-> frame, outcome |-> outcome ]) ]

\* parseCall up to its await, for call i of the frame: the source to resolve,
\* whether it is taken as the first call, and what the callback waits for:
\* "io" for resolveFileReference, "micro" when only the promise chain is awaited
StartCall(s, frame, i, stackFrames) ==
    LET firstCall == s.stackFrameID = 0
        source    == IF firstCall THEN frame.src ELSE frame.calls[i].src
        known     == /\ source \in DOMAIN s.resolvedFileReferences
                     /\ s.resolvedFileReferences[source].count <= 1
    IN  [ frame       |-> frame,
          i           |-> i,
          stackFrames |-> stackFrames,
          firstCall   |-> firstCall,
          source      |-> source,
          line        |-> IF firstCall THEN frame.line ELSE frame.calls[i].line,
          wait        |-> IF IsNut(source) /\ (~firstCall \/ ~known) THEN "io" ELSE "micro",
          filePath    |-> IF ~IsNut(source) THEN source
                          ELSE IF firstCall /\ known
                          THEN s.resolvedFileReferences[source].fullpath
                          ELSE NoPath ]

\* the string built from the stack traces for exceptionInfo.details
TraceString(stackTraces) ==
    [ i \in 1..Len(stackTraces) |->
        [ name   |-> stackTraces[i].name,
          source |-> Basename(stackTraces[i].path),
          line   |-> stackTraces[i].line,
          here   |-> i = 1 ] ]

\* the end of the parseString callback: the stop is reported by its reason.
\* stacktraces[0].source of an empty stack throws, which ends the callback.
Finalize(s, frame) ==
    IF frame.type = "error"
    THEN LET exception == Decode(ErrorText)
             s1 == [ s EXCEPT !.debuggerState = StErrored ]
         IN  IF s1.stacktraces = << >> THEN Parsed(s1, frame, "threw")
             ELSE LET s2 == SendEvent(s1, Ev("output", << "error", exception >>))
                      s3 == [ s2 EXCEPT !.exceptionInfo =
                                [ description |-> exception,
                                  details     |-> << TraceString(s2.stacktraces) >> ] ]
                  IN  Parsed(SendEvent(s3, Ev("stopped", << "exception", exception >>)),
                             frame, "errored")
    ELSE Parsed([ SendEvent(s, Ev("stopped", << frame.type >>))
                    EXCEPT !.debuggerState = StStopped ],
                frame, "stopped")

\* the <objs> list of a frame and the <l> elements of a call
ObjsOf(frame) == IF "objs" \in DOMAIN frame THEN frame.objs ELSE NoReferences
LocalsOf(call) == IF "l" \in DOMAIN call THEN call.l ELSE << >>

\* parseLocalVariable: the variable tagged with the frame, and the tree of
\* the aggregate it holds added under the root
ParseLocalVariable(s, local, currentFrame) ==
    LET variable == [ name |-> local.name, type |-> local.type, val |-> local.val,
                      frameId |-> currentFrame ]
        s1 == [ s EXCEPT !.localVariables = Append(@, variable) ]
    IN  IF IsComplexDataType(local.type)
        THEN LET r == BuildReferenceTree(s1.currentParsedReferences, local.val, local.name,
                                         local.type, 0, 0,
                                         [ nodes    |-> s1.referenceTree,
                                           searched |-> s1.visitedTreeElements,
                                           budget   |-> BuildBudget(s1.currentParsedReferences),
                                           diverged |-> FALSE ])
             IN  [ s1 EXCEPT !.referenceTree = r.st.nodes,
                             !.visitedTreeElements = r.st.searched ]
        ELSE s1

\* the loop over call['l'] of the parseString callback
RECURSIVE ParseLocals(_, _, _, _)
ParseLocals(s, locals, i, currentFrame) ==
    IF i > Len(locals) THEN s
    ELSE ParseLocals(ParseLocalVariable(s, locals[i], currentFrame), locals, i + 1,
                     currentFrame)

\* the loop over the calls of an <update> frame: no call is awaited
RECURSIVE ParseUpdateCalls(_, _, _)
ParseUpdateCalls(s, calls, i) ==
    IF i > Len(calls) THEN s
    ELSE ParseUpdateCalls(ParseLocals(s, LocalsOf(calls[i]), 1, i - 1), calls, i + 1)

\* the callback from the settling of parseCall on: the frame is pushed, the
\* loop goes to the next call or the stop is reported.  Result: [ s, task ]
\* where task holds the callback if it is suspended again
FinishCall(s, t, filePath) ==
    LET made        == filePath # NoPath
        newFrame    == [ id   |-> s.stackFrameID,
                         name |-> t.frame.calls[t.i].fnc,
                         path |-> filePath,
                         line |-> t.line,
                         hint |-> IF IsNut(t.source) THEN "normal" ELSE "deemphasize" ]
        stackFrames == IF made THEN Append(t.stackFrames, newFrame) ELSE t.stackFrames
        s0          == [ s EXCEPT !.stackFrameID = IF made THEN @ + 1 ELSE @,
                                  !.stacktraces = stackFrames ]
        s1          == ParseLocals(s0, LocalsOf(t.frame.calls[t.i]), 1, t.i - 1)
    IN  IF t.i < Len(t.frame.calls)
        THEN [ s |-> s1, task |-> << StartCall(s1, t.frame, t.i + 1, stackFrames) >> ]
        ELSE [ s |-> Finalize(s1, t.frame), task |-> << >> ]

\* the promise jobs of the current turn, first in first out
RECURSIVE DrainMicro(_)
DrainMicro(s) ==
    LET k == FindIndex(s.parseTasks, LAMBDA t : t.wait = "micro")
    IN  IF k = 0 THEN s
        ELSE LET t  == s.parseTasks[k]
                 s1 == [ s EXCEPT !.parseTasks = RemoveAt(@, k) ]
                 r  == FinishCall(s1, t, t.filePath)
             IN  DrainMicro([ r.s EXCEPT !.parseTasks = @ \o r.task ])

\* what the user can answer when resolveFileReference asks
Choices(t) ==
    IF t.firstCall /\ Len(FindFiles(t.source)) > 1
    THEN { "file1", "file2", "stepout", "resume", "ignore" }
    ELSE IF t.firstCall /\ Len(FindFiles(t.source)) = 0
    THEN { "resume", "stepout", "ignore" }
    ELSE { "none" }

\* resolveFileReference settling and the .then of parseCall.  Result: [ s, filePath ]
Resolve(s, t, choice) ==
    LET files == FindFiles(t.source)
        Remember(ss, p) ==
            [ ss EXCEPT !.resolvedFileReferences =
                          Put(@, t.source, [ fullpath |-> p, count |-> 1 ]) ]
        Act(ss) == IF choice = "resume" THEN ResumeExecution(ss)
                   ELSE IF choice = "stepout" THEN StepOut(ss)
                   ELSE ss
        picked == IF choice = "file2" THEN files[2] ELSE files[1]
    IN  IF t.firstCall
        THEN IF Len(files) > 1
             THEN IF choice \in { "file1", "file2" }
                  THEN [ s |-> Remember(s, picked), filePath |-> picked ]
                  ELSE [ s |-> Act(s), filePath |-> NoPath ]
             ELSE IF Len(files) = 0
             THEN [ s |-> Remember(Act(s), t.source), filePath |-> t.source ]
             ELSE [ s |-> Remember(s, files[1]), filePath |-> files[1] ]
        ELSE IF Len(files) > 1
             THEN [ s |-> s, filePath |-> files[1] ]
             ELSE IF Len(files) = 0
             THEN [ s |-> Remember(s, t.source), filePath |-> t.source ]
             ELSE [ s |-> Remember(s, files[1]), filePath |-> files[1] ]

\* clearTimeout(debugSession.resumeTimer)
ClearResumeTimer(s) ==
    IF s.timerHandleLive
    THEN [ s EXCEPT !.resumeTimers = @ - 1, !.timerHandleLive = FALSE ]
    ELSE s

\* setResumeTimeout without the test of the engine version
SetResumeTimeout_anyEngine(s) ==
    IF s.resumeWorkaround
    THEN [ s EXCEPT !.resumeTimers = @ + 1, !.timerHandleLive = TRUE ]
    ELSE s

\* setResumeTimeout
SetResumeTimeout(s) ==
    IF s.scriptVersion < Squirrel3 /\ s.resumeWorkaround
    THEN [ s EXCEPT !.resumeTimers = @ + 1, !.timerHandleLive = TRUE ]
    ELSE s

\* the auto resume of parseReceivedData without resetFileReferences
AutoResume_keepFiles(s, data) ==
    Parsed(ResumeExecution(s), data, "autoresumed")

\* the auto resume of parseReceivedData on the error marker
AutoResume(s, data) ==
    Parsed(ResetFileReferences(ResumeExecution(s)), data, "autoresumed")

\* the err branch of the parseString callback without the resume
ParseError_noResume(s, data) ==
    Parsed(SendEvent(s, Ev("output", << "parse error" >>)), data, "parseerror")

\* the err branch of the parseString callback
ParseError(s, data) ==
    Parsed(ResumeExecution(SendEvent(s, Ev("output", << "parse error" >>))),
           data, "parseerror")

\* the end of the decoding of an <update> frame, reporting a stop
UpdateDone_stopped(s, data) ==
    Parsed([ SendEvent(SendEvent(s, Ev("invalidated", NoArg)), Ev("stopped", << "step" >>))
               EXCEPT !.debuggerState = StStopped ], data, "updated")

\* the end of the decoding of an <update> frame
UpdateDone(s, data) ==
    Parsed(SendEvent(s, Ev("invalidated", NoArg)), data, "updated")

\* parseReceivedData, up to the first await of its parseString callback
ParseReceivedData(s, receivedData) ==
    LET s0 == ClearResumeTimer(s)
    IN  IF receivedData = ResumedLiteral
        THEN LET s1 == ResetState([ s0 EXCEPT !.debuggerState = StRunning ])
                 s2 == IF s1.scriptVersion = Squirrel3 THEN CleanupUnusedWatches(s1) ELSE s1
             IN  Parsed(SendEvent(s2, Ev("continued", NoArg)), ResumedFrame, "resumed")
        ELSE
        LET s1 == [ s0 EXCEPT !.watchesThisStep = << >> ]
            x  == ParseString(receivedData)
            data == x.data
        IN  IF s1.resumeOnExceptions /\ s1.debuggerState # StStopped
               /\ HasErrorMarker(receivedData)
            THEN AutoResume(s1, data)
            ELSE IF x.err
            THEN ParseError(s1, data)
            ELSE IF data.kind = "addbreakpoint"
            THEN Parsed(ParseBreakpoint(s1, data.line, data.src), data, "addbreakpoint")
            ELSE IF ~((data.kind = "break" /\ ~data.desc) \/ data.kind = "update")
            THEN Parsed(s1, data, "ignored")
            ELSE LET s2 == [ s1 EXCEPT !.currentParsedReferences = ObjsOf(data),
                                       !.localVariables = << >>,
                                       !.variableBuckets = NoReferences,
                                       !.referenceTree = << >>,
                                       !.startingFrameID = -1,
                                       !.currentFrameID = 0 ]
                 IN  IF data.kind = "update"
                     THEN UpdateDone(ParseUpdateCalls(s2, data.calls, 1), data)
                     ELSE [ s2 EXCEPT !.parseTasks =
                                        Append(@, StartCall(s2, data, 1, << >>)) ]

BufferComplete_always(buffer) == TRUE

\* this._bufferedData.endsWith("\r\n")
BufferComplete(buffer) == EndsWithCRLF(buffer)

\* the loop of onRecieveData over the packages of the buffer
RECURSIVE ParseEach(_, _)
ParseEach(s, packages) ==
    IF packages = << >> THEN s
    ELSE ParseEach(IF Head(packages) # << >>
                   THEN [ ParseReceivedData(s, Head(packages)) EXCEPT !.decoded = @ + 1 ]
                   ELSE s,
                   Tail(packages))

\* onRecieveData
OnRecieveData(s, data) ==
    LET s1 == [ s EXCEPT !.bufferedData = Concat(@, data) ]
    IN  IF ~BufferComplete(s1.bufferedData) THEN s1
        ELSE LET s2 == ParseEach([ s1 EXCEPT !.stackFrameID = 0 ], Split(s1.bufferedData))
             IN  [ s2 EXCEPT !.bufferedData = << >>,
                             !.usedVariableReferences = << 0 >>,
                             !.visitedTreeElements = << >> ]

-----------------------------------------------------------------------------
(* Short representation (parsing.ts) *)

\* String(n)
Str(n) == << "0", "1", "2", "3", "4", "5", "6", "7", "8", "9", "10", "11", "12",
             "13", "14", "15" >>[n + 1]

\* isVariableEHandle
IsVariableEHandle(referenceList, reference) ==
    /\ reference \in DOMAIN referenceList
    /\ \E i \in 1..Len(referenceList[reference]) :
         /\ referenceList[reference][i].vt = "native function"
         /\ referenceList[reference][i].kv = "entindex"

\* the start of an entry: nothing for an array, the key for a table, the raw
\* value otherwise
RenderKey(referenceList, type, element) ==
    IF type = "a" THEN << >>
    ELSE IF type = "t"
    THEN IF element.kt = "s" THEN << element.kv, " = " >>
         ELSE IF element.kt = "a" THEN << "Array [...] = " >>
         ELSE IF element.kt = "t" THEN << "Table {...} = " >>
         ELSE IF element.kt = "r" THEN << "[REFERENCE] = " >>
         ELSE IF element.kt = "x"
         THEN IF IsVariableEHandle(referenceList, element.kv) THEN << "[Entity handle] = " >>
              ELSE << "[Object] = " >>
         ELSE IF element.kt = "y" THEN << "[Class] = " >>
         ELSE IF element.kt = "fn" THEN << "[Function] = " >>
         ELSE IF element.kt = "h" THEN << "[Thread] = " >>
         ELSE IF element.kt = "g" THEN << "[Function generator] = " >>
         ELSE IF element.kt = "u" THEN << "[Userdata] = " >>
         ELSE << element.kv, " = " >>
    ELSE << Str(element.v) >>

\* the rest of an entry: the value by its type
RenderValue(referenceList, element) ==
    IF element.vt = "s" THEN << "\"", Str(element.v), "\"" >>
    ELSE IF element.vt = "a" THEN << "Array [...]" >>
    ELSE IF element.vt = "t" THEN << "Table {...}" >>
    ELSE IF element.vt = "r" THEN << "REFERENCE" >>
    ELSE IF element.vt = "x"
    THEN IF IsVariableEHandle(referenceList, element.v) THEN << "Entity handle" >>
         ELSE IF element.v \in DOMAIN referenceList THEN << "Object" >>
         ELSE << >>
    ELSE IF element.vt = "y" THEN << "Class" >>
    ELSE IF element.vt = "fn" THEN << "Function" >>
    ELSE IF element.vt = "h" THEN << "Thread" >>
    ELSE IF element.vt = "g" THEN << "Function generator" >>
    ELSE IF element.vt = "u" THEN << "Userdata" >>
    ELSE << Str(element.v) >>

\* the marker appended when the maximum count is reached
Ellipsis == << "..." >>

ReachedMax_late(parsedElementCount, max) == parsedElementCount > max

\* parsedElementCount >= debugSession.maxShortData
ReachedMax(parsedElementCount, max) == parsedElementCount >= max

\* the loop over the elements of the object from element i: the entries of
\* `contents', i - 1 of them parsed so far
RECURSIVE RenderLoop(_, _, _, _, _, _)
RenderLoop(referenceList, type, objTable, i, max, contents) ==
    IF i > Len(objTable) THEN contents
    ELSE IF ReachedMax(i - 1, max) THEN Append(contents, Ellipsis)
    ELSE RenderLoop(referenceList, type, objTable, i + 1, max,
                    Append(contents, RenderKey(referenceList, type, objTable[i])
                                       \o RenderValue(referenceList, objTable[i])))

Repr(label, length, contents) == [ label |-> label, length |-> length, contents |-> contents ]

NoRepr == Repr("", 0, << >>)

\* getStructShortRepresentation: the text as its label, the length it shows
\* and the entries between its brackets (none when the text is the label alone)
GetStructShortRepresentation(s, serverRef, type) ==
    LET referenceList == s.currentParsedReferences
        objTable == IF serverRef \in DOMAIN referenceList THEN referenceList[serverRef]
                    ELSE << >>
        contents == RenderLoop(referenceList, type, objTable, 1, s.maxShortData, << >>)
    IN  IF type = "a" THEN Repr("Array", Len(objTable), contents)
        ELSE IF type = "t" THEN Repr("Table", Len(objTable), contents)
        ELSE IF type = "r" THEN Repr("REFERENCE", 0, << >>)
        ELSE IF type = "x"
        THEN IF IsVariableEHandle(referenceList, serverRef) THEN Repr("Entity handle", 0, << >>)
             ELSE Repr("Object", 0, << >>)
        ELSE IF type = "y" THEN Repr("Class", 0, << >>)
        ELSE IF type = "fn" THEN Repr("Function", 0, << >>)
        ELSE IF type = "h" THEN Repr("Thread", 0, << >>)
        ELSE IF type = "g" THEN Repr("Function generator", 0, << >>)
        ELSE IF type = "u" THEN Repr("Userdata", 0, << >>)
        ELSE Repr("Structure", 0, contents)

-----------------------------------------------------------------------------
(* setBreakPointsRequest *)

\* the body of sendBpPromise.then(...) up to its first await
RunSetBreakPoints(s, p, req) ==
    LET originalBps == BpGet(s.breakpoints, p)
        newBps      == ActualBreakpoints(originalBps, req)
        removal     == BpsForRemoval(originalBps, newBps)
        inclusion   == BpsForInclusion(originalBps, newBps)
        rem         == RemovalLoop(p, removal, s.breakpointsRefCount, s.sent)
        inc         == InclusionLoop(p, inclusion, 1, rem.m, s.notifiedFileBreakpoints, rem.out)
        me          == [ path  |-> p,
                         added |-> Range(req) \ { originalBps[i].line : i \in 1..Len(originalBps) } ]
    IN  [ s EXCEPT
            !.breakpoints = [ q \in (DOMAIN s.breakpoints) \cup {p} |->
                                IF q = p THEN newBps ELSE s.breakpoints[q] ],
            !.breakpointsRefCount = inc.m,
            !.notifiedFileBreakpoints = inc.notified,
            !.sent = inc.out,
            !.emitter = me,
            !.bpTasks = IF inc.at = 0 THEN @
                        ELSE Append(@, [ path |-> p, incl |-> inclusion, at |-> inc.at,
                                         me |-> me ]) ]

\* setBreakPointsRequest while connected
SetBreakPointsRequest(p, req) ==
    /\ debuggerState # StDisconnected
    /\ Len(bpTasks) < MaxBpTasks
    /\ Commit(RunSetBreakPoints(Begin([ name |-> "setBreakpoints", arg |-> NoArg ]), p, req))

\* setBreakPointsRequest while connected, also while earlier runs are
\* suspended in their await
SetBreakPointsOverlapping(p, req) ==
    /\ debuggerState # StDisconnected
    /\ LET s == RunSetBreakPoints(Begin([ name |-> "setBreakpoints", arg |-> NoArg ]), p, req)
       IN  /\ Len(s.bpTasks) <= MaxBpTasks
           /\ Commit(s)

\* setBreakPointsRequest while disconnected: the body waits for "connect"
SetBreakPointsWhileDisconnected(p, req) ==
    /\ debuggerState = StDisconnected
    /\ bpWaiting = << >>
    /\ Commit([ Begin([ name |-> "setBreakpointsWait", arg |-> NoArg ])
                  EXCEPT !.bpWaiting = << [ path |-> p, req |-> req ] >> ])

\* resolveFileReference(basename, false, false) settles: the rest of the loop
BpResolveDone(k) ==
    /\ k \in 1..Len(bpTasks)
    /\ LET s   == Begin([ name |-> "bpResolveDone", arg |-> NoArg ])
           t   == bpTasks[k]
           m1  == RefCountIncrement(s.breakpointsRefCount, t.path, t.incl[t.at].line)
           inc == InclusionLoop(t.path, t.incl, t.at + 1, m1, s.notifiedFileBreakpoints, << >>)
           rest == RemoveAt(s.bpTasks, k)
       IN  Commit([ s EXCEPT
                      !.breakpointsRefCount = inc.m,
                      !.notifiedFileBreakpoints = inc.notified,
                      !.sent = inc.out,
                      !.emitter = t.me,
                      !.bpTasks = IF inc.at = 0 THEN rest
                                  ELSE Append(rest, [ t EXCEPT !.at = inc.at ]) ])

-----------------------------------------------------------------------------
(* Connection manager *)

RECURSIVE RunWaiting(_, _)
RunWaiting(s, waiting) ==
    IF waiting = << >> THEN s
    ELSE RunWaiting(RunSetBreakPoints(s, Head(waiting).path, Head(waiting).req), Tail(waiting))

\* socket 'connect' handler, followed by the once("connect") listeners of the
\* setBreakPointsRequest runs that were waiting
ConnectHandler(s) ==
    LET s1 == [ ResetState(s) EXCEPT !.breakpoints = NoBreakpoints ]
        s2 == [ Write(s1, Cmd("rd", NoArg, TRUE)) EXCEPT
                  !.debuggerState = StReady,
                  !.notifiedFileBreakpoints = << >> ]
        s3 == IF s2.displayRootTable
              THEN LET r == AddWatch(s2, 0, RootExpr, -1, TRUE)
                   IN  [ r.s EXCEPT !.watches = Append(@, r.watch) ]
              ELSE s2
    IN  [ RunWaiting(s3, s3.bpWaiting) EXCEPT !.bpWaiting = << >> ]

Connect ==
    /\ debuggerState = StDisconnected
    /\ Len(watches) + 2 <= MaxWatches
    /\ watchID < MaxWatchID
    /\ Len(bpTasks) < MaxBpTasks
    /\ Commit(ConnectHandler(Begin([ name |-> "connect", arg |-> NoArg ])))

\* the 'end' handler without the reset of the retry counter
EndHandler_keepRetries(s) ==
    [ SendEvent(s, Ev("terminated", NoArg)) EXCEPT !.debuggerState = StDisconnected ]

\* socket 'end' handler
EndHandler(s) ==
    [ SendEvent(s, Ev("terminated", NoArg)) EXCEPT
        !.debuggerState = StDisconnected,
        !.connectionRetries = 1 ]

SocketEnd ==
    /\ debuggerState # StDisconnected
    /\ Commit(EndHandler(Begin([ name |-> "end", arg |-> NoArg ])))

\* the retry progress indicator of the 'error' handler
RetryProgressId == "1001"

\* the last value of connectionRetries at which a retry is still scheduled
RetryLimit == 10

\* attemptConnect: socket.connect
AttemptConnect(s) == [ s EXCEPT !.connecting = TRUE, !.attempts = @ + 1 ]

\* sendErrorResponse(attachResponse, ...), recorded with the adapter events
AttachError(s, format) == SendEvent(s, Ev("attachError", << format >>))

\* socket 'error' handler; socket.end() closes the socket the attempt used
ErrorHandler(s) ==
    LET s0 == [ s EXCEPT !.connecting = FALSE ]
    IN  IF s0.connectionRetries <= 1
        THEN [ AttemptConnect(SendEvent(s0, Ev("progressStart", NoArg)))
                 EXCEPT !.connectionRetries = @ + 1 ]
        ELSE IF s0.connectionRetries > 1 /\ s0.connectionRetries <= RetryLimit
        THEN [ s0 EXCEPT !.retryTimers = @ + 1 ]
        ELSE ResetState(AttachError(SendEvent(s0, Ev("progressEnd", NoArg)), "failed"))

\* the callback of the timer the 'error' handler schedules
RetryCallback(s) ==
    LET s1 == SendEvent([ s EXCEPT !.retryTimers = @ - 1 ], Ev("progressUpdate", NoArg))
    IN  IF s1.cancelledProgressId
        THEN LET s2 == [ SendEvent(s1, Ev("progressEnd", NoArg)) EXCEPT
                          !.cancelledProgressId = FALSE,
                          !.connectionRetries = 1 ]
             IN  SendEvent(AttachError(s2, "aborted"), Ev("terminated", NoArg))
        ELSE [ AttemptConnect(s1) EXCEPT !.connectionRetries = @ + 1 ]

\* cancelRequest with a progressId
Cancel(s, progressId) ==
    [ s EXCEPT !.cancelledProgressId = (progressId = RetryProgressId) ]

-----------------------------------------------------------------------------
(* Initial state: the session after its constructor *)

NoException == [ description |-> Undefined, details |-> << >> ]

\* the fields but the configured maximum and the object graph of the step
InitCore ==
    /\ debuggerState = StDisconnected
    /\ scriptVersion \in { Squirrel2, Squirrel3 }
    /\ resumeOnExceptions = FALSE
    /\ rememberFiles \in BOOLEAN
    /\ displayRootTable \in BOOLEAN
    /\ breakpoints = NoBreakpoints
    /\ breakpointsRefCount = {}
    /\ notifiedFileBreakpoints = << >>
    /\ bpTasks = << >>
    /\ bpWaiting = << >>
    /\ emitter = NoEmitter
    /\ bufferedData = << >>
    /\ stackFrameID = 0
    /\ stacktraces = << >>
    /\ exceptionInfo = NoException
    /\ resolvedFileReferences = NoFileReferences
    /\ currentFrameID = -1
    /\ startingFrameID = -1
    /\ localVariables = << >>
    /\ parseTasks = << >>
    /\ decoded = 0
    /\ parsed = << >>
    /\ resumeWorkaround \in BOOLEAN
    /\ resumeTimers = 0
    /\ timerHandleLive = FALSE
    /\ watches = << >>
    /\ watchesThisStep = << >>
    /\ entityDataWatches = << >>
    /\ watchID = 1
    /\ connectionRetries = 1
    /\ cancelledProgressId = FALSE
    /\ connecting = FALSE
    /\ retryTimers = 0
    /\ attempts = 0
    /\ watchEvaluateTimers = 0
    /\ watchTimerLive = FALSE
    /\ scopeTasks = << >>
    /\ usedVariableReferences = << 0 >>
    /\ variableBuckets = NoReferences
    /\ visitedTreeElements = << >>
    /\ referenceTree = << >>
    /\ treePhase = "idle"
    /\ shortRepr = NoRepr
    /\ lastOp = [ name |-> "constructor", arg |-> NoArg ]
    /\ sent = << >>
    /\ events = << >>

InitSession ==
    /\ InitCore
    /\ currentParsedReferences = NoReferences
    /\ maxShortData = 4

-----------------------------------------------------------------------------
(* Specification of the breakpoint registry *)

LineSeqs == { SetToSeq(S) : S \in SUBSET Lines }

InitBp ==
    /\ InitSession
    /\ scriptVersion = Squirrel2
    /\ rememberFiles = FALSE
    /\ displayRootTable = FALSE
    /\ resumeWorkaround = FALSE

NextBp ==
    \/ Connect
    \/ \E p \in Paths, req \in LineSeqs : SetBreakPointsRequest(p, req)
    \/ \E p \in Paths, req \in LineSeqs : SetBreakPointsWhileDisconnected(p, req)
    \/ \E k \in 1..MaxBpTasks : BpResolveDone(k)

SpecBp == InitBp /\ [][NextBp]_vars

\* the number of paths with this basename whose set holds the line: the
\* reference count the wire workaround is meant to keep for (basename, line)
Holders(base, line) ==
    Cardinality({ q \in DOMAIN breakpoints :
                    Basename(q) = base /\ line \in BpLines(breakpoints, q) })

\* C1: a remove-breakpoint command for (basename, L) is written only when no
\* path with that basename still holds a breakpoint on L.
C1_RemoveOnlyAtZero ==
    \A i \in 1..Len(sent) :
        sent[i].op = "rb" => Holders(Basename(sent[i].arg[2]), sent[i].arg[1]) = 0

\* C2 as stated: an add-breakpoint command for (basename, L) is written only
\* when the count of holders of (basename, L) goes from zero to one.
C2_AddOnlyFromZero ==
    \A i \in 1..Len(sent) :
        (sent[i].op = "ab" /\ lastOp.name = "setBreakpoints")
            => Holders(Basename(sent[i].arg[2]), sent[i].arg[1]) = 1

\* C2 amended: an add-breakpoint command is written for (path, L) only when L
\* is requested for the path and was not in the path's previous set, whatever
\* the other paths of the same basename hold.
C2_AddOnlyNewLines ==
    \A i \in 1..Len(sent) :
        sent[i].op = "ab"
            => /\ sent[i].arg[2] = emitter.path
               /\ sent[i].arg[1] \in emitter.added

\* an add-breakpoint command written for a line a sibling path already holds
C2_Witness ==
    \E i \in 1..Len(sent) :
        /\ sent[i].op = "ab"
        /\ lastOp.name = "setBreakpoints"
        /\ Holders(Basename(sent[i].arg[2]), sent[i].arg[1]) = 2

\* C23: a breakpoint that setBreakpoints added and for which no addbreakpoint
\* acknowledgement was received is unverified.  This specification receives
\* no frame, so every breakpoint of the registry is one.
C23_UnverifiedUntilAcknowledged ==
    \A p \in DOMAIN breakpoints :
      \A i \in 1..Len(breakpoints[p]) : ~breakpoints[p][i].verified

-----------------------------------------------------------------------------
(* Specification of overlapping setBreakpoints requests for one path *)

RacePath == << "a", "f.nut" >>
RaceSeqs == { SetToSeq(S) : S \in SUBSET (1..(MaxLine + 1)) }

NextRace ==
    \/ Connect
    \/ \E req \in RaceSeqs : SetBreakPointsOverlapping(RacePath, req)
    \/ \E k \in 1..MaxBpTasks : BpResolveDone(k)

SpecRace == InitBp /\ [][NextRace]_vars

\* C37: once every setBreakpoints request of the path has completed, a line
\* the last step added on the engine, and did not remove again, is a line of
\* the registry for that path.
C37_EngineMatchesRegistry ==
    [][ bpTasks' = << >>
          => \A j \in 1..Len(sent') :
               sent'[j].op = "ab"
                 => \/ sent'[j].arg[1] \in BpLines(breakpoints', sent'[j].arg[2])
                    \/ \E k \in (j + 1)..Len(sent') :
                         sent'[k].op = "rb" /\ sent'[k].arg = sent'[j].arg ]_vars

-----------------------------------------------------------------------------
(* Specification of the watch manager *)

\* sendUpdateRequest
SendUpdateRequest(s) ==
    LET s1 == IF s.watchTimerLive THEN [ s EXCEPT !.watchEvaluateTimers = @ - 1 ] ELSE s
    IN  [ s1 EXCEPT !.watchEvaluateTimers = @ + 1, !.watchTimerLive = TRUE ]

\* evaluateWatchRequest: the watch bookkeeping of one evaluation; hasValue
\* tells whether a watch that is already tracked holds a value of the frame
EvaluateWatch(s, expression, hasValue) ==
    LET existing == \E j \in 1..Len(s.watches) : s.watches[j].expression = expression
        r  == AddWatch(s, s.watchID, expression, 0, TRUE)
        s1 == [ r.s EXCEPT !.watchesThisStep = Append(@, r.watch.id) ]
        requiresUpdate == ~(existing /\ hasValue)
    IN  IF s1.scriptVersion = Squirrel3 /\ requiresUpdate
        THEN SendUpdateRequest(s1)
        ELSE s1

EvaluateWatchRequest(expression, hasValue) ==
    /\ debuggerState # StDisconnected
    /\ watchID < MaxWatchID
    /\ Len(watches) < MaxWatches
    /\ Len(watchesThisStep) < MaxThisStep
    /\ Commit(EvaluateWatch(Begin([ name |-> "evaluateWatch", arg |-> NoArg ]),
                            expression, hasValue))

\* the callback of the timer of sendUpdateRequest
UpdateTimerFired ==
    /\ watchTimerLive
    /\ LET s == Begin([ name |-> "updateTimer", arg |-> NoArg ])
       IN  Commit([ Write(s, Cmd("ua", NoArg, TRUE)) EXCEPT
                      !.watchEvaluateTimers = @ - 1,
                      !.watchTimerLive = FALSE ])

\* addWatch applied to the session, with the next regular id or an id of
\* the entity data
AddWatchCall(entity, expression, affectTables) ==
    /\ watchID < MaxWatchID
    /\ Len(watches) + Len(entityDataWatches) < MaxWatches
    /\ LET id == IF entity THEN EntityId ELSE watchID
           s  == Begin([ name |-> "addWatch", arg |-> << id, expression, affectTables >> ])
       IN  Commit(AddWatch(s, id, expression, 0, affectTables).s)

\* workspace.onDidChangeConfiguration handler, for a change of displayRootTable
ConfigurationChanged(display) ==
    /\ display # displayRootTable
    /\ Len(watches) < MaxWatches
    /\ watchID < MaxWatchID
    /\ LET s == [ Begin([ name |-> "configurationChanged", arg |-> NoArg ])
                    EXCEPT !.displayRootTable = display ]
       IN  Commit(IF display THEN AddWatch(s, 0, RootExpr, -1, TRUE).s
                  ELSE RemoveWatch(s, 0, FALSE))

\* removeWatch applied to the session
RemoveWatchCall(id, affectTables) ==
    Commit(RemoveWatch(Begin([ name |-> "removeWatch", arg |-> << id, affectTables >> ]),
                       id, affectTables))

\* cleanupUnusedWatches applied to the session
CleanupUnusedWatchesCall ==
    /\ scriptVersion = Squirrel3
    /\ debuggerState # StDisconnected
    /\ Commit(CleanupUnusedWatches(Begin([ name |-> "cleanupUnusedWatches", arg |-> NoArg ])))

WatchIds == (0..(MaxWatchID - 1)) \cup { EntityId }

InitWatch ==
    /\ InitSession
    /\ scriptVersion = Squirrel3
    /\ rememberFiles = FALSE
    /\ resumeWorkaround = FALSE

NextWatch ==
    \/ Connect
    \/ SocketEnd
    \/ \E e \in Exprs, hasValue \in BOOLEAN : EvaluateWatchRequest(e, hasValue)
    \/ UpdateTimerFired
    \/ \E d \in BOOLEAN : ConfigurationChanged(d)
    \/ \E id \in WatchIds, a \in BOOLEAN : RemoveWatchCall(id, a)
    \/ CleanupUnusedWatchesCall

SpecWatch == InitWatch /\ [][NextWatch]_vars

WatchIdsOf(ws) == { ws[i].id : i \in 1..Len(ws) }

\* C5: after the pruning has run, no tracked watch (the root-table watch with
\* id 0 aside) has an id outside the validated set of the step, and the
\* validated set is empty.
C5_PruneRemovesAllStale ==
    [][ lastOp'.name = "cleanupUnusedWatches"
          => /\ \A i \in 1..Len(watches') :
                   watches'[i].id = 0 \/ watches'[i].id \in Range(watchesThisStep)
             /\ watchesThisStep' = << >> ]_vars

IsRemoveWatchOf(id, affectTables) ==
    lastOp'.name = "removeWatch" /\ lastOp'.arg = << id, affectTables >>

Tracked(id) == id \in WatchIdsOf(watches)

OneRemoved(id) ==
    /\ Len(watches') = Len(watches) - 1
    /\ \E k \in 1..Len(watches) : watches[k].id = id /\ watches' = RemoveAt(watches, k)

\* C6 as stated: removeWatch for an id without the reserved bit removes one
\* tracked entry and writes one rw command when the id is tracked, and removes
\* nothing and writes nothing when it is not.
C6_RemoveWatchRegular ==
    [][ \A id \in WatchIds, a \in BOOLEAN :
          (IsRemoveWatchOf(id, a) /\ ~HasReservedBit(id))
            => IF Tracked(id)
               THEN OneRemoved(id) /\ sent' = << RemoveWatchCmd(id) >>
               ELSE watches' = watches /\ sent' = << >> ]_vars

\* C6 amended: the above holds for removeWatch with affectTables = true; with
\* affectTables = false removeWatch removes nothing and writes one rw command,
\* whether or not the id is tracked.
C6_RemoveWatchByMode ==
    [][ \A id \in WatchIds, a \in BOOLEAN :
          (IsRemoveWatchOf(id, a) /\ ~HasReservedBit(id))
            => IF ~a
               THEN watches' = watches /\ sent' = << RemoveWatchCmd(id) >>
               ELSE IF Tracked(id)
               THEN OneRemoved(id) /\ sent' = << RemoveWatchCmd(id) >>
               ELSE watches' = watches /\ sent' = << >> ]_vars

\* removeWatch(id, true) has run for an untracked regular id while other
\* watches were tracked
C6_Witness ==
    /\ lastOp.name = "removeWatch"
    /\ lastOp.arg[2] = TRUE
    /\ ~HasReservedBit(lastOp.arg[1])
    /\ sent = << >>
    /\ watches # << >>

\* C36: every command written to the socket ends with a line feed.
C36_CommandsEndWithNewline ==
    \A j \in 1..Len(sent) : sent[j].nl

-----------------------------------------------------------------------------
(* Specification of the receive buffer *)

\* socket 'data' handler: onRecieveData and the promise jobs it leaves behind
SocketData(chunk) ==
    /\ debuggerState # StDisconnected
    /\ WellFormed(Concat(bufferedData, chunk))
    /\ NumFrames(Concat(bufferedData, chunk)) <= MaxFrames
    /\ Len(parseTasks) < MaxParseTasks
    /\ Commit(DrainMicro(OnRecieveData(Begin([ name |-> "data", arg |-> chunk ]), chunk)))

\* socket 'data' handler, also while the decoding of an earlier frame is
\* suspended in its file resolution
SocketDataOverlapping(chunk) ==
    /\ debuggerState # StDisconnected
    /\ WellFormed(Concat(bufferedData, chunk))
    /\ NumFrames(Concat(bufferedData, chunk)) <= MaxFrames
    /\ LET s == DrainMicro(OnRecieveData(Begin([ name |-> "data", arg |-> chunk ]), chunk))
       IN  /\ Len(s.parseTasks) <= MaxParseTasks
           /\ Commit(s)

\* the frames the server sends in this specification
ChunkFrames ==
    { ResumedFrame, GarbageFrame, AddBreakpointFrame,
      BreakFrame("breakpoint", OneCall(SrcNative)),
      BreakFrame("error", OneCall(SrcNative)) }

InitChunk ==
    /\ InitSession
    /\ rememberFiles = FALSE
    /\ displayRootTable = FALSE
    /\ resumeWorkaround = FALSE

NextChunk ==
    \/ Connect
    \/ SocketEnd
    \/ \E chunk \in Pieces(ChunkFrames, MaxFrames) : SocketData(chunk)

SpecChunk == InitChunk /\ [][NextChunk]_vars

\* the buffer after the chunk of the step is appended to it
Accumulated == Concat(bufferedData, lastOp'.arg)

\* C3: a chunk after which the accumulated buffer does not end with CRLF is
\* only appended to the buffer: no package is handed to the frame decoder,
\* nothing is written or emitted and no other field of the session changes.
C3_NoDecodeBeforeCRLF ==
    [][ (lastOp'.name = "data" /\ ~EndsWithCRLF(Accumulated))
          => /\ decoded' = 0
             /\ parsed' = << >>
             /\ sent' = << >>
             /\ events' = << >>
             /\ bufferedData' = Accumulated
             /\ UNCHANGED << sessionVars, breakpoints, breakpointsRefCount,
                             notifiedFileBreakpoints, bpTasks, bpWaiting, stackFrameID,
                             stacktraces, exceptionInfo, resolvedFileReferences,
                             currentFrameID, startingFrameID, localVariables, parseTasks,
                             resumeWorkaround, resumeTimers, timerHandleLive, watchVars,
                             treeVars, reprVars, connVars, timerVars >> ]_vars

\* the first chunk of a frame is held in the buffer and nothing was decoded
C3_Witness ==
    /\ lastOp.name = "data"
    /\ decoded = 0
    /\ bufferedData # << >>
    /\ bufferedData[Len(bufferedData)] = CR

\* C4: a chunk that completes the buffer to a CRLF-terminated <resumed/> frame
\* sets the state to running and clears the per-step structures.
C4_ResumedMeansRunning ==
    [][ (lastOp'.name = "data" /\ Accumulated = ResumedLiteral)
          => /\ debuggerState' = StRunning
             /\ bufferedData' = << >>
             /\ currentFrameID' = 0
             /\ startingFrameID' = -1
             /\ visitedTreeElements' = << >>
             /\ resolvedFileReferences' = NoFileReferences ]_vars

-----------------------------------------------------------------------------
(* Specification of the frame decoder *)

\* resolveFileReference settles for the suspended decoding k: the rest of
\* parseCall, of the loop over the calls and the promise jobs that follow
ResolveDone(k, choice) ==
    /\ k \in 1..Len(parseTasks)
    /\ parseTasks[k].wait = "io"
    /\ choice \in Choices(parseTasks[k])
    /\ LET s  == Begin([ name |-> "resolveDone", arg |-> << choice >> ])
           t  == parseTasks[k]
           s1 == [ s EXCEPT !.parseTasks = RemoveAt(@, k) ]
           r  == Resolve(s1, t, choice)
           f  == FinishCall(r.s, t, r.filePath)
       IN  Commit(DrainMicro([ f.s EXCEPT !.parseTasks = @ \o f.task ]))

\* continueRequest
ContinueRequest ==
    /\ debuggerState # StDisconnected
    /\ Commit(ResumeExecution(Begin([ name |-> "continue", arg |-> NoArg ])))

UserChoices == { "file1", "file2", "stepout", "resume", "ignore", "none" }

InitRecv ==
    /\ InitSession
    /\ scriptVersion = Squirrel2
    /\ rememberFiles = FALSE
    /\ displayRootTable = FALSE
    /\ resumeWorkaround = FALSE

NextRecv ==
    \/ Connect
    \/ ContinueRequest
    \/ \E chunk \in WholeChunks(FileFrames) : SocketData(chunk)
    \/ \E k \in 1..MaxParseTasks, choice \in UserChoices : ResolveDone(k, choice)

SpecRecv == InitRecv /\ [][NextRecv]_vars

\* C9: with break-on-exception enabled, when the decoding of a step-stop frame
\* ends, a frame of reason "error" has set the state to errored and recorded
\* the exception description and the rendered stack trace, a frame of another
\* reason has set the state to stopped and reported that reason, and the stack
\* holds one frame per call element in call order, numbered from 0.
C9_StopReported ==
    \A i \in 1..Len(parsed) :
        LET frame == parsed[i].frame
        IN  (~resumeOnExceptions /\ frame.kind = "break" /\ ~frame.desc)
              => /\ IF frame.type = "error"
                    THEN /\ debuggerState = StErrored
                         /\ exceptionInfo.description = Decode(ErrorText)
                         /\ exceptionInfo.details = << TraceString(stacktraces) >>
                    ELSE /\ debuggerState = StStopped
                         /\ \E j \in 1..Len(events) :
                              events[j].type = "stopped" /\ events[j].arg = << frame.type >>
                 /\ Len(stacktraces) = Len(frame.calls)
                 /\ \A j \in 1..Len(stacktraces) :
                      /\ stacktraces[j].id = j - 1
                      /\ stacktraces[j].name = frame.calls[j].fnc

-----------------------------------------------------------------------------
(* Specification of the requests that resume or step *)

\* nextRequest ("so") and stepInRequest ("si")
Step(s, op) ==
    IF s.debuggerState = StErrored \/ s.debuggerState = StPreResume
    THEN ResumeExecution(s)
    ELSE SetResumeTimeout(Write(s, Cmd(op, NoArg, TRUE)))

\* a step request that schedules a timer is taken while one more fits
TimerFits == (scriptVersion < Squirrel3 /\ resumeWorkaround) => resumeTimers < MaxTimers

NextRequest ==
    /\ debuggerState # StDisconnected
    /\ TimerFits
    /\ Commit(Step(Begin([ name |-> "next", arg |-> NoArg ]), "so"))

StepInRequest ==
    /\ debuggerState # StDisconnected
    /\ TimerFits
    /\ Commit(Step(Begin([ name |-> "stepIn", arg |-> NoArg ]), "si"))

\* stepOutRequest
StepOutRequest ==
    /\ debuggerState # StDisconnected
    /\ Commit(StepOut(Begin([ name |-> "stepOut", arg |-> NoArg ])))

\* the console expressions of evaluateRequest, and one it does not know
ReplExpressions ==
    { "rd", "ready", "go", "resume", "sr", "stepout", "sp", "suspend", "so", "step",
      "si", "stepin", "ua", "update", "di", "disable", "help" }

\* the console update request written for every engine version
ReplUpdate_anyEngine(s) ==
    Write(s, Cmd("ua", NoArg, TRUE))

\* evaluateRequest, case "ua" / "update"
ReplUpdate(s) ==
    IF s.scriptVersion = Squirrel3 THEN Write(s, Cmd("ua", NoArg, TRUE)) ELSE s

\* evaluateRequest with context 'repl'
Repl(s, expression) ==
    IF expression \in { "rd", "ready" } THEN Write(s, Cmd("rd", NoArg, TRUE))
    ELSE IF expression \in { "go", "resume" } THEN ResumeExecution(s)
    ELSE IF expression \in { "sr", "stepout" } THEN StepOut(s)
    ELSE IF expression \in { "sp", "suspend" } THEN Write(s, Cmd("sp", NoArg, TRUE))
    ELSE IF expression \in { "so", "step" } THEN Write(s, Cmd("so", NoArg, TRUE))
    ELSE IF expression \in { "si", "stepin" } THEN Write(s, Cmd("si", NoArg, TRUE))
    ELSE IF expression \in { "ua", "update" }
    THEN ReplUpdate(s)
    ELSE IF expression \in { "di", "disable" } THEN Write(s, Cmd("di", NoArg, TRUE))
    ELSE s

EvaluateReplRequest(expression) ==
    /\ debuggerState # StDisconnected
    /\ Commit(Repl(Begin([ name |-> "repl", arg |-> << expression >> ]), expression))

\* the callback of the timer of setResumeTimeout; handle tells whether the
\* timer that fires is the one this.resumeTimer refers to or an earlier one
\* that a later setResumeTimeout left scheduled
ResumeTimerFired(handle) ==
    /\ IF handle THEN timerHandleLive
       ELSE resumeTimers > (IF timerHandleLive THEN 1 ELSE 0)
    /\ LET s  == Begin([ name |-> "resumeTimer", arg |-> NoArg ])
           s1 == [ ResumeExecution(s) EXCEPT
                     !.resumeTimers = @ - 1,
                     !.timerHandleLive = IF handle THEN FALSE ELSE @ ]
       IN  Commit(SendEvent(s1, Ev("output", << "timeout" >>)))

\* setExceptionBreakPointsRequest, all telling whether the 'allExceptions'
\* filter is among the filters
SetExceptionBreakPointsRequest(all) ==
    Commit([ Begin([ name |-> "setExceptionBreakpoints", arg |-> << all >> ])
               EXCEPT !.resumeOnExceptions = ~all ])

InitResume ==
    /\ InitSession
    /\ rememberFiles = FALSE
    /\ displayRootTable = FALSE

NextResume ==
    \/ Connect
    \/ SocketEnd
    \/ ContinueRequest
    \/ NextRequest
    \/ StepInRequest
    \/ StepOutRequest
    \/ \E expression \in ReplExpressions : EvaluateReplRequest(expression)
    \/ \E handle \in BOOLEAN : ResumeTimerFired(handle)
    \/ \E all \in BOOLEAN : SetExceptionBreakPointsRequest(all)
    \/ \E chunk \in WholeChunks(LightFrames) : SocketData(chunk)

SpecResume == InitResume /\ [][NextResume]_vars

\* the step runs resumeExecution on behalf of a continue request, a console
\* go / resume, a step request in the errored state or the step timer
ResumeIssued ==
    \/ lastOp'.name = "continue"
    \/ lastOp'.name = "resumeTimer"
    \/ lastOp'.name = "repl" /\ lastOp'.arg[1] \in { "go", "resume" }
    \/ /\ lastOp'.name \in { "next", "stepIn" }
       /\ debuggerState \in { StErrored, StPreResume }

\* C10 as stated: issuing the resume command moves the state to running.
C10_ResumeMeansRunning ==
    [][ ResumeIssued => debuggerState' = StRunning ]_vars

\* C10 amended: issuing the resume command writes go and moves the state to
\* ready.
C10_ResumeMeansReady ==
    [][ ResumeIssued
          => /\ debuggerState' = StReady
             /\ \E j \in 1..Len(sent') : sent'[j].op = "go" ]_vars

\* a step request in the errored state has resumed: rd and go were written
C10_Witness ==
    /\ lastOp.name = "next"
    /\ debuggerState = StReady
    /\ Len(sent) = 2
    /\ sent[1].op = "rd"
    /\ sent[2].op = "go"

\* C40: a resume issued in the errored state writes rd before go, a resume
\* issued in any other state writes go with no rd before it, and a next or
\* stepIn request in the errored state writes neither so nor si and starts no
\* step timer.
C40_ReadyBeforeGoWhenErrored ==
    [][ ResumeIssued
          => /\ \E j \in 1..Len(sent') : sent'[j].op = "go"
             /\ \A j \in 1..Len(sent') :
                  sent'[j].op = "go"
                    => (debuggerState = StErrored
                          <=> \E k \in 1..(j - 1) : sent'[k].op = "rd")
             /\ (lastOp'.name \in { "next", "stepIn" } /\ debuggerState = StErrored)
                  => /\ \A j \in 1..Len(sent') : sent'[j].op \notin { "so", "si" }
                     /\ resumeTimers' = resumeTimers ]_vars

\* a step-in request in the errored state, on the engine whose steps start
\* timers, has resumed: rd and go were written
C40_Witness ==
    /\ lastOp.name = "stepIn"
    /\ scriptVersion < Squirrel3 /\ resumeWorkaround
    /\ Len(sent) = 2
    /\ sent[1].op = "rd"
    /\ sent[2].op = "go"

\* the last handler wrote a step-over or a step-in command
StepWritten == \E j \in 1..Len(sent') : sent'[j].op \in { "so", "si" }

\* the step timers are the ones of the older engine with the workaround on
TimerApplies == scriptVersion < Squirrel3 /\ resumeWorkaround

\* C16 as stated: on the older engine with the workaround enabled every
\* step-over or step-in command that is written starts a timer, and on the
\* newer engine none does.
C16_StepCommandStartsTimer ==
    [][ StepWritten
          => IF TimerApplies
             THEN resumeTimers' = resumeTimers + 1 /\ timerHandleLive'
             ELSE resumeTimers' = resumeTimers ]_vars

\* C16 amended: a next or stepIn request that writes so / si (the state is
\* neither errored nor preResume) starts a timer on the older engine with the
\* workaround enabled and none otherwise; so / si typed in the debug console
\* starts none; a timer that fires writes go and sends the diagnostic output.
C16_StepRequestStartsTimer ==
    [][ /\ (lastOp'.name \in { "next", "stepIn" } /\ StepWritten)
             => IF TimerApplies
                THEN resumeTimers' = resumeTimers + 1 /\ timerHandleLive'
                ELSE resumeTimers' = resumeTimers /\ ~timerHandleLive'
        /\ (lastOp'.name = "repl" /\ StepWritten)
             => resumeTimers' = resumeTimers /\ timerHandleLive' = timerHandleLive
        /\ lastOp'.name = "resumeTimer"
             => /\ TimerApplies
                /\ resumeTimers' = resumeTimers - 1
                /\ \E j \in 1..Len(sent') : sent'[j].op = "go"
                /\ \E j \in 1..Len(events') :
                     events'[j].type = "output" /\ events'[j].arg = << "timeout" >> ]_vars

\* the timer of a step fired with no frame in between: go and the diagnostic
C16_Witness ==
    /\ lastOp.name = "resumeTimer"
    /\ scriptVersion = Squirrel2
    /\ resumeTimers = 0
    /\ sent = << Cmd("go", NoArg, TRUE) >>
    /\ \E j \in 1..Len(events) : events[j].type = "output"

\* C17: any received frame cancels the step timer.  After a socket-data step
\* that handed a complete frame to the decoder no step timer is pending.
C17_FrameCancelsTimers ==
    [][ (lastOp'.name = "data" /\ decoded' > 0) => resumeTimers' = 0 ]_vars

\* C18: at every moment at most one step timer and at most one watch-refresh
\* timer are pending.
C18_OneTimerPerKind ==
    /\ resumeTimers <= 1
    /\ watchEvaluateTimers <= 1

\* the chunk of the step is the whole <update> frame
UpdateReceived == lastOp'.name = "data" /\ lastOp'.arg = << Text(UpdateFrame, "whole"), CR, LF >>

\* C22: an <update> frame does not perturb the call stack.  After it is
\* decoded the stack-frame list and the session state are what they were and
\* no stopped event is sent; the locals and the object graph of the step are
\* rebuilt and the invalidated event is sent.
C22_UpdateKeepsStack ==
    [][ UpdateReceived
          => /\ stacktraces' = stacktraces
             /\ debuggerState' = debuggerState
             /\ \A j \in 1..Len(events') : events'[j].type # "stopped"
             /\ \E j \in 1..Len(events') : events'[j].type = "invalidated"
             /\ parsed' = << [ frame |-> UpdateFrame, outcome |-> "updated" ] >>
             /\ localVariables' = << >>
             /\ referenceTree' = << >>
             /\ currentParsedReferences' = NoReferences ]_vars

\* an <update> frame was decoded while the session was stopped with a stack
C22_Witness ==
    /\ lastOp.name = "data"
    /\ parsed = << [ frame |-> UpdateFrame, outcome |-> "updated" ] >>
    /\ debuggerState = StStopped
    /\ Len(stacktraces) = 2

\* the chunk of the step is a whole frame that is no XML
GarbageReceived ==
    lastOp'.name = "data" /\ lastOp'.arg = << Text(GarbageFrame, "whole"), CR, LF >>

C11_DisconnectedIsTerminal ==
    [][ (debuggerState = StDisconnected /\ lastOp'.name # "connect")
          => debuggerState' = StDisconnected ]_vars

-----------------------------------------------------------------------------
(* Specification of the reference tree *)

\* the reference ids of the object graph of a step
Refs == { 1, 2, 3 }

\* an element that holds a scalar, and one that holds the aggregate `ref'
ScalarElement == Element("s", "k", "i", 0)
RefElement(ref) == Element("s", "k", "t", ref)

\* the objects of at most MaxElems elements; << >> is an object without any
Objects ==
    UNION { [ 1..n -> { ScalarElement } \cup { RefElement(ref) : ref \in Refs } ]
              : n \in 0..MaxElems }

\* parseLocalVariable building the tree of a local that holds the aggregate ref
BuildReferenceTreeCall(ref) ==
    /\ treePhase # "diverged"
    /\ LET s == Begin([ name |-> "buildReferenceTree", arg |-> << ref >> ])
           r == BuildReferenceTree(s.currentParsedReferences, ref, "local", "t", 0, 0,
                                   [ nodes    |-> s.referenceTree,
                                     searched |-> s.visitedTreeElements,
                                     budget   |-> BuildBudget(s.currentParsedReferences),
                                     diverged |-> FALSE ])
       IN  Commit([ s EXCEPT !.referenceTree = r.st.nodes,
                             !.visitedTreeElements = r.st.searched,
                             !.treePhase = IF r.st.diverged THEN "diverged" ELSE "done" ])

InitTree ==
    /\ InitCore
    /\ scriptVersion = Squirrel2
    /\ rememberFiles = FALSE
    /\ displayRootTable = FALSE
    /\ resumeWorkaround = FALSE
    /\ maxShortData = 4
    /\ currentParsedReferences \in [ Refs -> Objects ]

NextTree == \E ref \in Refs : BuildReferenceTreeCall(ref)

SpecTree == InitTree /\ [][NextTree]_vars

\* the aggregates the elements of the aggregates of S hold
Held(referenceList, S) ==
    UNION { { referenceList[r][i].v :
                i \in { j \in 1..Len(referenceList[r]) :
                          IsComplexDataType(referenceList[r][j].vt) } } : r \in S }

RECURSIVE Reach(_, _)
Reach(referenceList, S) ==
    LET T == S \cup (Held(referenceList, S) \cap Refs)
    IN  IF T = S THEN S ELSE Reach(referenceList, T)

NodesOf(ref) == { i \in 1..Len(referenceTree) : referenceTree[i].reference = ref }

\* C7: the construction ends on every object graph, cyclic ones included; the
\* tree never holds two nodes of one reference id, and after a construction
\* from an aggregate it holds exactly one node for each aggregate with
\* elements that can be reached from it.
C7_OneNodePerReference ==
    /\ treePhase # "diverged"
    /\ \A ref \in Refs : Cardinality(NodesOf(ref)) <= 1
    /\ treePhase = "done"
         => \A ref \in Reach(currentParsedReferences, { lastOp.arg[1] }) :
              currentParsedReferences[ref] # << >> => Cardinality(NodesOf(ref)) = 1

\* a construction from an aggregate that holds itself has ended with one node
\* for it
C7_Witness ==
    /\ treePhase = "done"
    /\ lastOp.arg[1] \in Held(currentParsedReferences, { lastOp.arg[1] })
    /\ Cardinality(NodesOf(lastOp.arg[1])) = 1

-----------------------------------------------------------------------------
(* Specification of the short representation *)

\* the aggregate that is rendered: n elements, strings at the even places
Elems(n) ==
    [ i \in 1..n |-> Element("i", Str(i - 1), IF i % 2 = 0 THEN "s" ELSE "i", i) ]

\* the types variableToValue hands to getStructShortRepresentation
AggregateTypes == { "a", "t", "r", "x", "y" }

\* variableToValue rendering the aggregate 1 as a value of that type
GetStructShortRepresentationCall(type) ==
    LET s == Begin([ name |-> "shortRepr", arg |-> << type >> ])
    IN  Commit([ s EXCEPT !.shortRepr = GetStructShortRepresentation(s, 1, type) ])

InitRepr ==
    /\ InitCore
    /\ scriptVersion = Squirrel2
    /\ rememberFiles = FALSE
    /\ displayRootTable = FALSE
    /\ resumeWorkaround = FALSE
    /\ maxShortData \in 1..MaxShortData
    /\ currentParsedReferences \in { [ r \in { 1 } |-> Elems(n) ] : n \in 0..MaxLength }

NextRepr == \E type \in AggregateTypes : GetStructShortRepresentationCall(type)

SpecRepr == InitRepr /\ [][NextRepr]_vars

\* the representation shows the first m elements and the marker when the
\* aggregate has more than m elements, and all its elements and no marker
\* otherwise
PreviewOf(n, m, contents) ==
    LET shown == IF n > m THEN m ELSE n
    IN  /\ Len(contents) = IF n > m THEN m + 1 ELSE n
        /\ \A i \in 1..shown : contents[i] # Ellipsis
        /\ n > m => contents[m + 1] = Ellipsis

-----------------------------------------------------------------------------
(* Specification of the connection manager: attach, retries, cancellation *)

\* the engineVersion argument of attachRequest, lower-cased
EngineVersions == { "squirrel2", "squirrel3", "other" }

\* attachRequest; a debug session is attached once
AttachRequest(engineVersion) ==
    /\ attempts = 0
    /\ LET s == Begin([ name |-> "attach", arg |-> << engineVersion >> ])
       IN  Commit(AttemptConnect(
             [ s EXCEPT !.scriptVersion =
                 IF engineVersion = "squirrel2" THEN Squirrel2
                 ELSE IF engineVersion = "squirrel3" THEN Squirrel3
                 ELSE @ ]))

\* socket 'connect': the outstanding socket.connect succeeded
ConnectEstablished ==
    /\ connecting
    /\ Len(watches) + 2 <= MaxWatches
    /\ watchID < MaxWatchID
    /\ Commit([ ConnectHandler(Begin([ name |-> "connect", arg |-> NoArg ]))
                  EXCEPT !.connecting = FALSE ])

\* socket 'error': the outstanding socket.connect failed
SocketError ==
    /\ connecting
    /\ Commit(ErrorHandler(Begin([ name |-> "error", arg |-> NoArg ])))

\* a retry timer of the 'error' handler fires
RetryTimerFired ==
    /\ retryTimers > 0
    /\ Commit(RetryCallback(Begin([ name |-> "retryTimer", arg |-> NoArg ])))

\* the progress ids a cancelRequest names
ProgressIds == { RetryProgressId, "other" }

\* the retry progress is shown from the first failure until the connection
\* is established or given up
RetryInProgress == attempts >= 2 /\ (connecting \/ retryTimers > 0)

\* the client cancels a progress indicator that is shown
CancelRequest(progressId) ==
    /\ progressId = RetryProgressId => RetryInProgress
    /\ Commit(Cancel(Begin([ name |-> "cancel", arg |-> << progressId >> ]), progressId))

InitConn ==
    /\ InitSession
    /\ scriptVersion = Squirrel2
    /\ rememberFiles = FALSE
    /\ displayRootTable = FALSE
    /\ resumeWorkaround = FALSE

NextConn ==
    \/ \E engineVersion \in EngineVersions : AttachRequest(engineVersion)
    \/ ConnectEstablished
    \/ SocketError
    \/ RetryTimerFired
    \/ \E progressId \in ProgressIds : CancelRequest(progressId)
    \/ SocketEnd
    \/ \E chunk \in WholeChunks(LightFrames) : SocketData(chunk)

SpecConn == InitConn /\ [][NextConn]_vars

\* an adapter event of the given type was emitted by the last handler
Emitted(type) == \E j \in 1..Len(events) : events[j].type = type

\* C12: when the remote closes the socket, in whatever state the session is,
\* a terminated event is emitted, the state becomes disconnected and the
\* retry counter is back at its initial value 1.
C12_EndResets ==
    lastOp.name = "end"
      => /\ Emitted("terminated")
         /\ debuggerState = StDisconnected
         /\ connectionRetries = 1

\* the remote closed a connection that was established at the third attempt
C12_Witness ==
    /\ lastOp.name = "end"
    /\ attempts >= 3
    /\ connectionRetries = 1
    /\ Emitted("terminated")
    /\ stacktraces # << >>

\* the attach error response with the given text was sent by the last handler
Reported(format) ==
    \E j \in 1..Len(events) :
      events[j].type = "attachError" /\ events[j].arg = << format >>

\* C13: on repeated socket errors the first failure triggers an immediate
\* retry, each later failure schedules exactly one retry timer and starts no
\* attempt itself, at most RetryLimit retries are made for one attach, and
\* the failure past the bound emits a terminated event and reports the
\* connection failure with no further attempt and no timer left.
C13_BoundedRetries ==
    [][ /\ attempts' <= RetryLimit + 1
        /\ lastOp'.name = "error"
             => IF connectionRetries <= 1
                THEN /\ connecting'
                     /\ attempts' = attempts + 1
                     /\ retryTimers' = retryTimers
                ELSE IF connectionRetries <= RetryLimit
                THEN /\ ~connecting'
                     /\ attempts' = attempts
                     /\ retryTimers' = retryTimers + 1
                ELSE /\ Emitted("terminated")'
                     /\ Reported("failed")'
                     /\ ~connecting'
                     /\ attempts' = attempts
                     /\ retryTimers' = 0 ]_vars

\* C14: once the user has cancelled the retry progress while retries are in
\* progress, no new connection attempt is started and the session does not
\* become ready; the retry timer that fires next ends the session with a
\* terminated event and reports the aborted connection.
C14_CancelEndsRetries ==
    [][ cancelledProgressId
          => /\ attempts' = attempts
             /\ debuggerState # StReady => debuggerState' # StReady
             /\ lastOp'.name = "retryTimer"
                  => Emitted("terminated")' /\ Reported("aborted")' ]_vars

-----------------------------------------------------------------------------
(* Specification of the breakpoint registry across connections *)

NextReconnect ==
    \/ NextBp
    \/ SocketEnd

SpecReconnect == InitBp /\ [][NextReconnect]_vars

\* C15: after the 'connect' handler (with no setBreakpoints run waiting for
\* it) the receive buffer and the per-step state are reset, the breakpoint
\* registry, the wire reference counts and the notified-basename list are
\* empty, rd is what was written and the state is ready.
C15_ConnectResets ==
    [][ (lastOp'.name = "connect" /\ bpWaiting = << >>)
          => /\ bufferedData' = << >>
             /\ currentFrameID' = 0
             /\ startingFrameID' = -1
             /\ resolvedFileReferences' = NoFileReferences
             /\ visitedTreeElements' = << >>
             /\ breakpoints' = NoBreakpoints
             /\ breakpointsRefCount' = {}
             /\ notifiedFileBreakpoints' = << >>
             /\ sent' = << Cmd("rd", NoArg, TRUE) >>
             /\ debuggerState' = StReady ]_vars

-----------------------------------------------------------------------------
(* Specification of addWatch over connections *)

NextAddWatch ==
    \/ Connect
    \/ SocketEnd
    \/ \E entity, a \in BOOLEAN, e \in Exprs : AddWatchCall(entity, e, a)
    \/ \E display \in BOOLEAN : ConfigurationChanged(display)
    \/ \E id \in WatchIds : RemoveWatchCall(id, TRUE)

SpecAddWatch == InitWatch /\ [][NextAddWatch]_vars

\* C19: the tracked watch list holds at most one entry per expression after
\* any sequence of connect events and addWatch calls with table bookkeeping
\* for ids without the reserved bit.
C19_OneWatchPerExpression ==
    \A i, j \in 1..Len(watches) :
      watches[i].expression = watches[j].expression => i = j

\* the call of the step: addWatch(id, expression, .., affectTables)
IsAddWatchOf(id, expression, affectTables) ==
    lastOp'.name = "addWatch" /\ lastOp'.arg = << id, expression, affectTables >>

AddWatchCmd(id, expression) == Cmd("aw", << id, expression >>, TRUE)

TrackedExpression(expression) ==
    \E k \in 1..Len(watches) : watches[k].expression = expression

\* C20 as stated: every addWatch call writes the add-watch command, whatever
\* the id, the affectTables flag and the tracked expressions.
C20_AddWatchAlwaysSends ==
    [][ \A id \in WatchIds, e \in Exprs, a \in BOOLEAN :
          IsAddWatchOf(id, e, a) => sent' = << AddWatchCmd(id, e) >> ]_vars

\* C20 amended: addWatch writes the add-watch command unless it is called
\* with affectTables = true for an id without the reserved bit and an
\* expression that is already tracked; then it writes nothing and leaves the
\* watch list and watchID as they are.
C20_AddWatchSendsUnlessTracked ==
    [][ \A id \in WatchIds, e \in Exprs, a \in BOOLEAN :
          IsAddWatchOf(id, e, a)
            => IF a /\ ~HasReservedBit(id) /\ TrackedExpression(e)
               THEN sent' = << >> /\ watches' = watches /\ watchID' = watchID
               ELSE sent' = << AddWatchCmd(id, e) >> ]_vars

\* addWatch with table bookkeeping has run for a tracked expression
C20_Witness ==
    /\ lastOp.name = "addWatch"
    /\ lastOp.arg[3] = TRUE
    /\ ~HasReservedBit(lastOp.arg[1])
    /\ sent = << >>
    /\ \E k \in 1..Len(watches) : watches[k].expression = lastOp.arg[2]

\* C21: addWatch with affectTables = false registers no bookkeeping: the
\* tracked watch list, the entity-data watches and watchID are unchanged.
C21_FireAndForgetKeepsTables ==
    [][ \A id \in WatchIds, e \in Exprs :
          IsAddWatchOf(id, e, FALSE)
            => /\ watches' = watches
               /\ entityDataWatches' = entityDataWatches
               /\ watchID' = watchID ]_vars

\* addWatch(.., false) has run for a tracked expression on a session that
\* tracks a watch
C21_Witness ==
    /\ lastOp.name = "addWatch"
    /\ lastOp.arg[3] = FALSE
    /\ sent = << AddWatchCmd(lastOp.arg[1], lastOp.arg[2]) >>
    /\ \E k \in 1..Len(watches) : watches[k].expression = lastOp.arg[2]

-----------------------------------------------------------------------------
(* Specification of the breakpoint acknowledgements *)

\* an <addbreakpoint line= src=> frame
AckFrame(src, line) == Frame("addbreakpoint", "", FALSE, src, line, << >>)

\* the sources the server names: a basename, a full path, and basenames
\* of files without breakpoints
AckSources == { << "", "f.nut" >>, << "a", "f.nut" >>, << "", "g.nut" >>, << "", "m.nut" >> }

\* the lines the server names: one that breakpoints are set on, one that
\* none is set on
AckLines == { 1, MaxLine + 1 }

AckFrames == { AckFrame(src, line) : src \in AckSources, line \in AckLines }

\* the files breakpoints are set in: the two that share a basename
VerifyPaths == { p \in Paths : Basename(p) = "f.nut" }

NextVerify ==
    \/ Connect
    \/ \E p \in VerifyPaths, req \in LineSeqs : SetBreakPointsRequest(p, req)
    \/ \E p \in VerifyPaths, req \in LineSeqs : SetBreakPointsWhileDisconnected(p, req)
    \/ \E k \in 1..MaxBpTasks : BpResolveDone(k)
    \/ \E chunk \in WholeChunks(AckFrames) : SocketData(chunk)

SpecVerify == InitBp /\ [][NextVerify]_vars

\* the registry keys an acknowledgement for src is matched to
MatchedKeys(src) ==
    IF src \in DOMAIN breakpoints THEN { src }
    ELSE { key \in DOMAIN breakpoints : src = << "", Basename(key) >> }

\* C24: an addbreakpoint acknowledgement for (src, line) sets the verified
\* flag and sends one changed notification for every registry entry with that
\* line whose path equals src or, when no registry path equals src, whose
\* basename equals src; nothing else of the registry changes.
C24_AckVerifiesMatched ==
    [][ \A src \in AckSources, line \in AckLines :
          (lastOp'.name = "data"
             /\ lastOp'.arg = << Text(AckFrame(src, line), "whole"), CR, LF >>)
            => LET hit == { key \in MatchedKeys(src) : line \in BpLines(breakpoints, key) }
               IN  /\ DOMAIN breakpoints' = DOMAIN breakpoints
                   /\ \A key \in DOMAIN breakpoints :
                        /\ Len(breakpoints'[key]) = Len(breakpoints[key])
                        /\ \A i \in 1..Len(breakpoints[key]) :
                             /\ breakpoints'[key][i].line = breakpoints[key][i].line
                             /\ breakpoints'[key][i].verified =
                                  IF key \in hit /\ breakpoints[key][i].line = line
                                  THEN TRUE
                                  ELSE breakpoints[key][i].verified
                   /\ Len(events') = Cardinality(hit)
                   /\ \A key \in hit :
                        \E j \in 1..Len(events') :
                          /\ events'[j].type = "breakpoint"
                          /\ events'[j].arg = << "changed", key, line >> ]_vars

\* an acknowledgement naming a basename was matched to the two paths of that
\* basename
C24_Witness ==
    /\ lastOp.name = "data"
    /\ lastOp.arg[1].frame.kind = "addbreakpoint"
    /\ lastOp.arg[1].frame.src = << "", "f.nut" >>
    /\ Len(events) = 2
    /\ events[1].type = "breakpoint"
    /\ events[2].type = "breakpoint"

\* the registry after setBreakpoints(p, req), against the registry before
Replaced(before, after, p, req) ==
    /\ DOMAIN after = (DOMAIN before) \cup { p }
    /\ [ i \in 1..Len(after[p]) |-> after[p][i].line ] = req
    /\ \A i \in 1..Len(req) :
         \A j \in 1..Len(BpGet(before, p)) :
           (before[p][j].line = req[i] /\ \A k \in 1..(j - 1) : before[p][k].line # req[i])
             => after[p][i].verified = before[p][j].verified
    /\ \A q \in (DOMAIN before) \ { p } : after[q] = before[q]

\* C30: setBreakpoints(path, lines) leaves the path with exactly the
\* requested lines, every line that was present with the verified flag it
\* had, and the sets of the other paths as they were; a request deferred to
\* the connect runs against the registry the connect has emptied.
C30_SetReplacesPath ==
    [][ /\ \A p \in VerifyPaths, req \in LineSeqs :
             SetBreakPointsRequest(p, req) => Replaced(breakpoints, breakpoints', p, req)
        /\ (Connect /\ bpWaiting # << >>)
             => Replaced(NoBreakpoints, breakpoints', bpWaiting[1].path, bpWaiting[1].req)
      ]_vars

\* a path was set again with the line it had while another path holds a
\* breakpoint
C30_Witness ==
    /\ lastOp.name = "setBreakpoints"
    /\ emitter.added = { }
    /\ BpGet(breakpoints, emitter.path) # << >>
    /\ \E q \in DOMAIN breakpoints : q # emitter.path /\ breakpoints[q] # << >>

-----------------------------------------------------------------------------
(* Specification of the basename notifications of setBreakpoints *)

NextNotify ==
    \/ Connect
    \/ SocketEnd
    \/ \E p \in VerifyPaths, req \in LineSeqs : SetBreakPointsOverlapping(p, req)
    \/ \E k \in 1..MaxBpTasks : BpResolveDone(k)

SpecNotify == InitBp /\ [][NextNotify]_vars

\* the number of resolveFileReference calls of the step: every call suspends
\* the run that makes it
AskedInStep ==
    Len(bpTasks') - Len(bpTasks) + (IF lastOp'.name = "bpResolveDone" THEN 1 ELSE 0)

\* C25: between two connects the files of a basename are resolved at most
\* once.  A step asks for at most one basename, one that was not notified
\* since the last connect, and records it; the record is kept until the next
\* connect.
C25_AskOncePerBasename ==
    [][ /\ AskedInStep \in { 0, 1 }
        /\ AskedInStep = 1
             => LET base == Basename(bpTasks'[Len(bpTasks')].path)
                IN  /\ base \in Range(notifiedFileBreakpoints')
                    /\ lastOp'.name # "connect"
                         => base \notin Range(notifiedFileBreakpoints)
        /\ lastOp'.name # "connect"
             => Range(notifiedFileBreakpoints) \subseteq Range(notifiedFileBreakpoints') ]_vars

\* a setBreakpoints call added a line for a second path of a basename while
\* the call that asked for the basename was still suspended, and did not ask
C25_Witness ==
    /\ lastOp.name = "setBreakpoints"
    /\ Len(bpTasks) = 1
    /\ bpTasks[1].path = << "a", "f.nut" >>
    /\ emitter.path = << "b", "f.nut" >>
    /\ emitter.added # {}

-----------------------------------------------------------------------------
(* Specification of the auto resume on exceptions *)

\* the frames of this specification: stops in a script file the workspace
\* holds once
AutoFrames ==
    { BreakFrame("breakpoint", OneCall(SrcUnique)), BreakFrame("error", OneCall(SrcUnique)) }

InitAuto ==
    /\ InitSession
    /\ scriptVersion = Squirrel2
    /\ displayRootTable = FALSE
    /\ resumeWorkaround = FALSE

NextAuto ==
    \/ Connect
    \/ ContinueRequest
    \/ \E all \in BOOLEAN : SetExceptionBreakPointsRequest(all)
    \/ \E chunk \in WholeChunks(AutoFrames) : SocketData(chunk)
    \/ \E k \in 1..MaxParseTasks, choice \in UserChoices : ResolveDone(k, choice)

SpecAuto == InitAuto /\ [][NextAuto]_vars

ErrorFrame == BreakFrame("error", OneCall(SrcUnique))

\* the chunk of the step is the whole <break type="error"> frame
ErrorReceived ==
    lastOp'.name = "data" /\ lastOp'.arg = << Text(ErrorFrame, "whole"), CR, LF >>

C28_AutoResumeEntersPreResume ==
    [][ (ErrorReceived /\ resumeOnExceptions /\ debuggerState # StStopped)
          => debuggerState' = StPreResume ]_vars

-----------------------------------------------------------------------------
(* Specification of the update request *)

InitUpdate ==
    /\ InitSession
    /\ rememberFiles = FALSE
    /\ resumeWorkaround = FALSE
    /\ displayRootTable = FALSE

NextUpdate ==
    \/ Connect
    \/ \E e \in Exprs, hasValue \in BOOLEAN : EvaluateWatchRequest(e, hasValue)
    \/ UpdateTimerFired
    \/ \E expression \in ReplExpressions : EvaluateReplRequest(expression)

SpecUpdate == InitUpdate /\ [][NextUpdate]_vars

\* C29: in a session on the older engine no ua command is written, and no
\* timer that would write one is scheduled, whatever watches are evaluated
\* and whatever is typed into the console.
C29_UpdateOnlyOnSquirrel3 ==
    scriptVersion # Squirrel3
      => /\ \A j \in 1..Len(sent) : sent[j].op # "ua"
         /\ ~watchTimerLive
         /\ watchEvaluateTimers = 0

\* the console update request was answered without a write on the older
\* engine, in a session that has evaluated a watch
C29_Witness ==
    /\ scriptVersion # Squirrel3
    /\ lastOp.name = "repl"
    /\ lastOp.arg = << "ua" >>
    /\ sent = << >>
    /\ Len(watches) > 0

\* C31: in a session that remembers file references, a resolution recorded
\* for a basename stays until the session disconnects or connects again.
C31_RememberedForSession ==
    [][ (rememberFiles /\ lastOp'.name # "connect")
          => \A b \in DOMAIN resolvedFileReferences :
               /\ b \in DOMAIN resolvedFileReferences'
               /\ resolvedFileReferences'[b] = resolvedFileReferences[b] ]_vars

-----------------------------------------------------------------------------
(* Specification of frames that arrive during a file resolution *)

OverlapFrames ==
    { BreakFrame("breakpoint", OneCall(SrcAmbiguous)),
      BreakFrame("breakpoint", OneCall(SrcUnique)),
      BreakFrame("step", OneCall(SrcNative)),
      BreakFrame("step", TwoCalls(SrcNative, SrcUnique)) }

NextOverlap ==
    \/ Connect
    \/ ContinueRequest
    \/ \E chunk \in WholeChunks(OverlapFrames) : SocketDataOverlapping(chunk)
    \/ \E k \in 1..MaxParseTasks, choice \in UserChoices : ResolveDone(k, choice)

SpecOverlap == InitRecv /\ [][NextOverlap]_vars

\* C32: while the decoding of a frame waits for a file resolution, the
\* delivery of another frame neither resets nor writes the structures of the
\* step: the stack frame counter, the call stack and the reported stop.
C32_OneFrameAtATime ==
    [][ (lastOp'.name = "data" /\ parseTasks # << >>)
          => /\ stackFrameID' = stackFrameID
             /\ stacktraces' = stacktraces
             /\ \A j \in 1..Len(events') : events'[j].type # "stopped" ]_vars

-----------------------------------------------------------------------------
(* Specification of the locals of a step *)

\* the object graph of the frames: aggregate 1 holds aggregate 2
StepObjs == [ r \in { 1, 2 } |-> IF r = 1 THEN << RefElement(2) >> ELSE << ScalarElement >> ]

\* a step-stop frame and a refresh frame whose local x holds aggregate 1
StopFrame ==
    FrameWithObjs(BreakFrame("step", << CallWithLocals("inner", SrcNative, 2,
                                                        << Local("x", "t", 1) >>) >>),
                  StepObjs)
RefreshFrame ==
    FrameWithObjs(Frame("update", "", FALSE, NoSource, 0,
                        << CallWithLocals("main", SrcNative, 2, << Local("x", "t", 1) >>) >>),
                  StepObjs)

\* a step-stop frame of two calls, the top one in a file the user has to pick
PickFrame ==
    FrameWithObjs(BreakFrame("breakpoint",
                             << CallWithLocals("inner", SrcAmbiguous, 2, << Local("p", "i", 0) >>),
                                CallWithLocals("outer", SrcUnique, 2, << Local("q", "i", 0) >>) >>),
                  StepObjs)

\* a stop on an exception with the same local
ErrorStopFrame ==
    FrameWithObjs(BreakFrame("error", << CallWithLocals("inner", SrcNative, 2,
                                                         << Local("x", "t", 1) >>) >>),
                  StepObjs)

StepFrames == { StopFrame, ErrorStopFrame, RefreshFrame, PickFrame }

NextStep ==
    \/ Connect
    \/ ContinueRequest
    \/ \E chunk \in WholeChunks(StepFrames) : SocketData(chunk)
    \/ \E k \in 1..MaxParseTasks, choice \in UserChoices : ResolveDone(k, choice)

SpecStep == InitRecv /\ [][NextStep]_vars

\* the step ended the decoding of a step-stop or refresh frame
StepDecoded ==
    \E j \in 1..Len(parsed) : parsed[j].outcome \in { "stopped", "errored", "updated" }

\* C34: after a step-stop or refresh frame has been parsed, the tree holds
\* exactly one node for each reference id that is the value of an
\* aggregate-typed local and has elements.
C34_TreeRebuiltEveryStep ==
    StepDecoded
      => \A i \in 1..Len(localVariables) :
           (/\ IsComplexDataType(localVariables[i].type)
            /\ currentParsedReferences[localVariables[i].val] # << >>)
             => Cardinality(NodesOf(localVariables[i].val)) = 1

\* the names of the locals the frame carries for the call named fnc
LocalNamesOf(frame, fnc) ==
    UNION { { LocalsOf(frame.calls[c])[l].name : l \in 1..Len(LocalsOf(frame.calls[c])) }
              : c \in { c \in 1..Len(frame.calls) : frame.calls[c].fnc = fnc } }

\* C38: when a step-stop frame has been decoded, the locals tagged with
\* frame id k are the locals of the call reported as stack frame id k.
C38_LocalsOfReportedCall ==
    \A j \in 1..Len(parsed) :
      parsed[j].outcome \in { "stopped", "errored" }
        => \A i \in 1..Len(stacktraces), v \in 1..Len(localVariables) :
             localVariables[v].frameId = stacktraces[i].id
               => localVariables[v].name \in LocalNamesOf(parsed[j].frame, stacktraces[i].name)

-----------------------------------------------------------------------------
(* Specification of the locals of frames that arrive during a file         *)
(* resolution                                                              *)

NextMix ==
    \/ Connect
    \/ ContinueRequest
    \/ \E chunk \in WholeChunks(StepFrames) : SocketDataOverlapping(chunk)
    \/ \E k \in 1..MaxParseTasks, choice \in UserChoices : ResolveDone(k, choice)

SpecMix == InitRecv /\ [][NextMix]_vars

\* C33: when the first local of a step-stop frame is parsed, which is when
\* the resolution of its first call settles, the local-variable bucket and
\* the reference tree hold nothing.
C33_FreshBeforeFirstLocal ==
    [][ lastOp'.name = "resolveDone"
          => \A k \in 1..Len(parseTasks) :
               (ResolveDone(k, lastOp'.arg[1]) /\ parseTasks[k].i = 1)
                 => localVariables = << >> /\ referenceTree = << >> ]_vars

-----------------------------------------------------------------------------
(* Specification of the scopes request *)

\* scopesRequest up to its await: the frame becomes the current one; for a
\* frame below the top in a script file that no resolved reference names,
\* the run is suspended in resolveFileReference(basename, true, true)
Scopes(s, frameId) ==
    LET s1 == [ s EXCEPT !.startingFrameID = IF @ = -1 THEN frameId ELSE @,
                         !.currentFrameID = frameId ]
        framePath == s.stacktraces[frameId + 1].path
        frameBaseName == << "", Basename(framePath) >>
        confirmed == \E b \in DOMAIN s.resolvedFileReferences :
                       s.resolvedFileReferences[b].fullpath = framePath
    IN  IF frameId > 0 /\ IsNut(framePath) /\ ~confirmed
        THEN [ s1 EXCEPT !.scopeTasks =
                 Append(@, [ workFrameID |-> frameId,
                             source      |-> frameBaseName,
                             firstCall   |-> TRUE,
                             hasRefData  |-> frameBaseName \in DOMAIN s.resolvedFileReferences,
                             frameRefData |-> IF frameBaseName \in DOMAIN s.resolvedFileReferences
                                              THEN s.resolvedFileReferences[frameBaseName]
                                              ELSE [ fullpath |-> NoPath, count |-> 0 ] ]) ]
        ELSE SendEvent(s1, Ev("response", << "scopes" >>))

\* the .then of scopesRequest: the reference is recorded, the frame at the
\* index of the request gets the file and the stacks are invalidated; the
\* assignment throws when the stack has no frame at that index
ScopesResolved(s, t, choice) ==
    LET r    == Resolve(s, t, choice)
        file == r.filePath
        s1   == IF t.hasRefData
                THEN [ r.s EXCEPT !.resolvedFileReferences =
                         Put(@, t.source, [ t.frameRefData EXCEPT !.count = @ + 1 ]) ]
                ELSE r.s
    IN  IF file = NoPath THEN SendEvent(r.s, Ev("response", << "scopes" >>))
        ELSE IF t.workFrameID + 1 > Len(s1.stacktraces) THEN s1
        ELSE SendEvent(SendEvent([ s1 EXCEPT !.stacktraces[t.workFrameID + 1].path = file ],
                                 Ev("invalidated", << "stacks", t.workFrameID >>)),
                       Ev("response", << "scopes" >>))

\* scopesRequest for a frame of the reported stack
ScopesRequest(frameId) ==
    /\ debuggerState \in { StStopped, StErrored }
    /\ frameId < Len(stacktraces)
    /\ Len(scopeTasks) < MaxScopeTasks
    /\ \A b \in DOMAIN resolvedFileReferences : resolvedFileReferences[b].count < MaxRefCount
    /\ Commit(Scopes(Begin([ name |-> "scopes", arg |-> << frameId >> ]), frameId))

\* resolveFileReference settles for the suspended scopesRequest k
ScopesResolveDone(k, choice) ==
    /\ k \in 1..Len(scopeTasks)
    /\ choice \in Choices(scopeTasks[k])
    /\ LET s == Begin([ name |-> "scopesResolveDone", arg |-> << choice >> ])
       IN  Commit(ScopesResolved([ s EXCEPT !.scopeTasks = RemoveAt(@, k) ],
                                 scopeTasks[k], choice))

\* stops below a native top call, in an ambiguous and in a unique file
ScopeFrames ==
    { BreakFrame("step", TwoCalls(SrcNative, SrcAmbiguous)),
      BreakFrame("step", TwoCalls(SrcNative, SrcUnique)),
      BreakFrame("step", OneCall(SrcNative)) }

NextScopes ==
    \/ Connect
    \/ ContinueRequest
    \/ \E chunk \in WholeChunks(ScopeFrames) : SocketData(chunk)
    \/ \E k \in 1..MaxParseTasks, choice \in UserChoices : ResolveDone(k, choice)
    \/ \E frameId \in 0..1 : ScopesRequest(frameId)
    \/ \E k \in 1..MaxScopeTasks, choice \in UserChoices : ScopesResolveDone(k, choice)

SpecScopes == InitRecv /\ [][NextScopes]_vars

\* C35: a file resolution started by a scopes request changes only the stack
\* frame it was started for: the frame it changes is in the file that was
\* resolved, and the stacks are invalidated in the step that changes it.
C35_ScopesUpdateOwnFrame ==
    [][ lastOp'.name = "scopesResolveDone"
          => /\ Len(stacktraces') = Len(stacktraces)
             /\ \A i \in 1..Len(stacktraces) :
                  stacktraces'[i] # stacktraces[i]
                    => /\ Basename(stacktraces[i].path) = Basename(stacktraces'[i].path)
                       /\ \E j \in 1..Len(events') : events'[j].type = "invalidated" ]_vars

-----------------------------------------------------------------------------
(* Specification of the variables lookup (getTableFromReference) *)

\* the DebuggerVariable made for element j of the object serverRef
TableVariable(element, serverRef, j) ==
    [ name              |-> << element.kv, j >>,
      value             |-> element.v,
      type              |-> element.vt,
      variableReference |-> IF IsComplexDataType(element.vt) THEN element.v + 1 ELSE 0,
      ownerReference    |-> serverRef + 1 ]

\* localVariables.get(key) || []
BucketOf(s, key) ==
    IF key \in DOMAIN s.variableBuckets THEN s.variableBuckets[key] ELSE << >>

\* getTableFromReference for elements with scalar keys: the session after the
\* call and the list returned
GetTableFromReference(s, objects, serverRef, pushToLocals) ==
    IF serverRef \in Range(s.usedVariableReferences)
    THEN [ s |-> s, vs |-> BucketOf(s, serverRef + 1) ]
    ELSE LET s1 == [ s EXCEPT !.usedVariableReferences = Append(@, serverRef) ]
         IN  IF serverRef \notin DOMAIN objects \/ objects[serverRef] = << >>
             THEN [ s |-> s1, vs |-> << >> ]
             ELSE LET variables ==
                          [ j \in 1..Len(objects[serverRef])
                              |-> TableVariable(objects[serverRef][j], serverRef, j) ]
                      bucket == IF pushToLocals THEN variables ELSE << >>
                  IN  [ s  |-> [ s1 EXCEPT !.variableBuckets =
                                   ((serverRef + 1) :> bucket) @@ @ ],
                        vs |-> variables ]

\* variablesRequest for a reference that is no scope handle, with no root
\* table known (rootTableReference = -1), start 0 and no count
Variables(s, variablesReference) ==
    LET existingElements == BucketOf(s, variablesReference)
        r  == GetTableFromReference(s, s.currentParsedReferences,
                                    variablesReference - 1, TRUE)
        vs == r.vs \o SeqFilter(existingElements, LAMBDA e : e \notin Range(r.vs))
    IN  SendEvent(r.s, Ev("response", << "variables", vs >>))

VariablesRequest(variablesReference) ==
    /\ variablesReference > 0
    /\ Commit(Variables(Begin([ name |-> "variables", arg |-> << variablesReference >> ]),
                        variablesReference))

\* an object graph that holds the objects 0 and 1
LookupObjs == [ r \in { 0, 1 } |-> IF r = 0 THEN << ScalarElement >> ELSE << RefElement(0) >> ]

LookupFrames ==
    { FrameWithObjs(BreakFrame("step", << CallWithLocals("inner", SrcNative, 2,
                                                          << Local("x", "t", 1) >>) >>),
                    LookupObjs),
      StopFrame, RefreshFrame }

NextLookup ==
    \/ Connect
    \/ ContinueRequest
    \/ \E chunk \in WholeChunks(LookupFrames) : SocketData(chunk)
    \/ \E variablesReference \in 1..3 : VariablesRequest(variablesReference)

SpecLookup == InitRecv /\ [][NextLookup]_vars

\* C39: a variables lookup of a reference that is in the object graph of the
\* step answers one entry for each element of that object.
C39_LookupListsEveryElement ==
    (lastOp.name = "variables" /\ (lastOp.arg[1] - 1) \in DOMAIN currentParsedReferences)
        => \E j \in 1..Len(events) :
             /\ events[j].type = "response"
             /\ Len(events[j].arg[2]) = Len(currentParsedReferences[lastOp.arg[1] - 1])

=============================================================================
